---- MODULE Spec2Model ----
(***************************************************************************)
(* Booking lifecycle, availability and notification dispatch of the        *)
(* listings application (listings/views.py, listings/serializer.py,        *)
(* listings/models.py).                                                    *)
(*                                                                         *)
(* Instants are integers (a DateTimeField value); a booking occupies       *)
(* [start_date, end_date).  Identifiers (UUIDs) are unique and never       *)
(* reused: bookings are numbered 1, 2, ... in creation order.              *)
(*                                                                         *)
(* The handlers are modelled at the level of their own control flow: the   *)
(* queries they issue, the checks they make, the rows they write, the      *)
(* tasks they enqueue and the response they return, exceptions included.   *)
(* A field the serializer and the model spell differently (guests_count    *)
(* and guests) is one field, and the serializer is taken to be bound to    *)
(* the Booking model although its Meta names none.  Rendering a stored     *)
(* row for a response is taken to succeed.                                 *)
(*                                                                         *)
(* Spec runs every handler as one step.  SpecConc runs create requests of  *)
(* two threads statement by statement, SpecDestroy does the same for       *)
(* destroy requests.  SpecPrice follows prices and notification payloads   *)
(* while listings are edited, SpecReview the review requests, SpecRespond  *)
(* the replies to and the edits of the reviews of a seeded database.       *)
(* SpecTask follows the mail tasks (listings/tasks.py) from the message    *)
(* sent to the state the result backend keeps, with workers that take,     *)
(* run and acknowledge them (alx_travel_app/celery.py) and may be lost,    *)
(* and the status lookup; SpecWork is the workers alone, under fairness.   *)
(* SpecSearch applies the availability filters of the listing search       *)
(* (listings/filters.py), SpecVisible the requests that read bookings,     *)
(* SpecRoute the routing of the messages requests and the scheduler send,  *)
(* SpecStatus confirm and cancel statement by statement, SpecUpdate the    *)
(* date changes of stored bookings.                                        *)
(***************************************************************************)
EXTENDS Integers, Sequences, FiniteSets, TLC

\* ---------------------------------------------------------------- bounds
MaxBookings == 2
MaxDate == 3
MaxQueue == 1
MaxTasks == 2
MaxLost == 1
MaxSent == 3

\* ------------------------------------------------------------- constants
Profiles == {"h1", "g1", "a1"}
Listings == {"L1", "L2"}
Dates == 1..MaxDate
Threads == {1, 2}

\* Booking.STATUS_CHOICES, models.py:171-175 (the stored value of a
\* cancelled booking is 'canceled').
STATUS_CHOICES == {"pending", "confirmed", "canceled", "completed"}

\* Listing.max_guests of the listings of the model.
max_guests == 2
\* guests_count values a client sends: within and over the capacity.
GuestCounts == {1, max_guests + 1}

\* Listing.name and Listing.price_per_night values a host can store.
Titles == {"Cabin", "Loft"}
Prices == {1, 2}
\* total_price values a client sends with a booking.
TotalPrices == {2, 3}

NoHost == "nobody"
NoActor == "-"                         \* the response log keeps no actor
NoListing == "L0"
NoTitle == ""
\* request.data.get('cancellation_reason', 'User requested cancellation')
DefaultReason == "User requested cancellation"
Reasons == {DefaultReason, "Change of plans"}

VARIABLES
    role,        \* UserProfile.role of every profile
    host,        \* Listing.host of every listing (NoHost: no such row)
    name,        \* Listing.name of every listing
    price_per_night, \* Listing.price_per_night of every listing
    bookings,    \* the bookings table: booking_id -> row
    nextId,      \* the booking_id the next insert gets
    reviews,     \* the reviews table: the set of rows
    queue,       \* tasks sent to the broker and not yet taken by a worker
    resp,        \* the operation last performed and the response it gave
    req,         \* per thread: the create request it is in the middle of
    results,     \* the result backend: task id -> what is stored of the task
    worker       \* the messages a worker holds, and the workers lost so far

vars == <<role, host, name, price_per_night, bookings, nextId, reviews,
          queue, resp, req, results, worker>>

\* ------------------------------------------------------------ responses
Response(op, actor, target, code) ==
    [op |-> op, actor |-> actor, target |-> target, code |-> code,
     property |-> NoListing, start_date |-> 0, end_date |-> 0,
     guests_count |-> 0, available |-> FALSE, conflicting_bookings |-> 0,
     listing_title |-> NoTitle, total_price |-> 0, email_queued |-> FALSE,
     rating |-> 0, now |-> 0, host_response |-> "",
     ready |-> "", successful |-> "", result |-> "", error |-> "",
     message |-> "", available_from |-> 0, available_to |-> 0,
     listings |-> {}, booking_ids |-> {}]

\* The response to a create request, logged with the request's data.
CreateResponse(pid, s, e, gc, tp, code) ==
    [Response("create", NoActor, 0, code) EXCEPT
        !.property = pid, !.start_date = s, !.end_date = e,
        !.guests_count = gc, !.total_price = tp,
        !.email_queued = (code = 201)]

IdleReq == [pc |-> "idle", actor |-> NoActor, property_id |-> NoListing,
            start_date |-> 0, end_date |-> 0, guests_count |-> 0,
            total_price |-> 0, booking_id |-> 0, listing_title |-> NoTitle,
            cancellation_reason |-> "", enqueued |-> FALSE,
            user |-> NoActor]

\* The response to the create request thread t is handling.
ThreadResponse(r, code) ==
    CreateResponse(r.property_id, r.start_date, r.end_date, r.guests_count,
                   r.total_price, code)

\* ------------------------------------------------------- booking queries
\* Faulty variant: the bounds of the range compared inclusively.
DatesConflict_Closed(b, s, e) == b.start_date <= e /\ b.end_date >= s

\* The ORM filter start_date__lt = e, end_date__gt = s.
DatesConflict(b, s, e) == b.start_date < e /\ b.end_date > s

\* Faulty variant: the status filter left out.
ConflictingBookings_AnyStatus(bk, listing, s, e) ==
    {b \in DOMAIN bk :
        bk[b].property = listing /\ DatesConflict(bk[b], s, e)}

\* views.py:285-290: Booking.objects.filter(property = listing,
\* status__in = ['pending', 'confirmed'], start_date__lt, end_date__gt)
ConflictingBookings(bk, listing, s, e) ==
    {b \in DOMAIN bk :
        /\ bk[b].property = listing
        /\ bk[b].status \in {"pending", "confirmed"}
        /\ DatesConflict(bk[b], s, e)}

\* BookingViewSet.get_queryset, views.py:364-390
GetQueryset(rl, hs, bk, actor) ==
    IF actor \notin DOMAIN rl THEN {}
    ELSE IF rl[actor] = "admin" THEN DOMAIN bk
    ELSE IF rl[actor] = "host"
         THEN {b \in DOMAIN bk : hs[bk[b].property] = actor}
    ELSE {b \in DOMAIN bk : bk[b].user = actor}

\* ----------------------------------------------------- BookingSerializer
\* BookingSerializer.validate, serializer.py:109-130.  The result is
\* "ok" (the data is returned), "invalid" (a ValidationError) or "none"
\* (the method falls off its end and returns None, which the framework
\* rejects with an AssertionError).
Validate(hs, hasDates, pid, s, e, gc) ==
    IF hasDates
    THEN IF e <= s THEN "invalid"
         ELSE IF pid # NoListing /\ gc # 0
              THEN IF pid \notin DOMAIN hs \/ hs[pid] = NoHost THEN "invalid"
                   ELSE IF gc > max_guests THEN "invalid"
                   ELSE "ok"
              ELSE "ok"
    ELSE "none"

\* BookingSerializer.create, serializer.py:134-152: "ok" or the
\* ValidationError raised when the listing or the profile does not exist.
CreateLookup(rl, hs, pid, uid) ==
    IF pid \in DOMAIN hs /\ hs[pid] # NoHost /\ uid \in DOMAIN rl
    THEN "ok" ELSE "invalid"

\* The row Booking.objects.create inserts.  The serializer field 'status'
\* is bound to source 'get_status_display', which is no column of Booking:
\* the status column takes the model default (models.py:189).
NewBooking(pid, uid, s, e, gc, tp) ==
    [property |-> pid, user |-> uid, start_date |-> s, end_date |-> e,
     guests |-> gc, total_price |-> tp, status |-> "pending"]

\* Booking.Meta.constraints, models.py:202-208: the CheckConstraint
\* Valid_date_range, end_date > start_date, that every INSERT and UPDATE
\* of a row has to pass.
Valid_date_range(row) == row.end_date > row.start_date

Insert(bk, id, row) == [b \in DOMAIN bk \cup {id} |->
                           IF b = id THEN row ELSE bk[b]]

Delete(bk, id) == [b \in DOMAIN bk \ {id} |-> bk[b]]

\* The keyword arguments of a task sent with .delay(): values, copied into
\* the message when it is sent.
ConfirmationMessage(id, title, row) ==
    [task |-> "send_booking_confirmation_email", booking_id |-> id,
     listing_title |-> title, check_in_date |-> row.start_date,
     check_out_date |-> row.end_date, total_price |-> row.total_price,
     cancellation_reason |-> ""]

CancellationMessage(id, title, reason) ==
    [task |-> "send_booking_cancellation_email", booking_id |-> id,
     listing_title |-> title, check_in_date |-> 0, check_out_date |-> 0,
     total_price |-> 0, cancellation_reason |-> reason]

\* ------------------------------------------------------------------ Init
\* The database holds the listing L1 of host h1 and at most one booking
\* already stored (any status of STATUS_CHOICES); nothing is queued.
InitialBookings ==
    {<<>>} \cup
    {[b \in {1} |-> [NewBooking("L1", "g1", 1, 2, 1, 2) EXCEPT !.status = st]] :
        st \in {"completed"}}

Init ==
    /\ role = [p \in Profiles |->
                 IF p = "h1" THEN "host" ELSE IF p = "a1" THEN "admin"
                 ELSE "guest"]
    /\ host = [l \in Listings |-> IF l = "L1" THEN "h1" ELSE NoHost]
    /\ name = [l \in Listings |-> "Cabin"]
    /\ price_per_night = [l \in Listings |-> 1]
    /\ bookings \in InitialBookings
    /\ nextId = Cardinality(DOMAIN bookings) + 1
    /\ reviews = {}
    /\ queue = <<>>
    /\ resp = Response("none", NoActor, 0, 0)
    /\ req = [t \in Threads |-> IdleReq]
    /\ results = <<>>
    /\ worker = [running |-> {}, lost |-> 0]

\* --------------------------------------------------------------- inputs
Users == Profiles
Bookers == {"g1"}
Updaters == {"a1", "g1"}
\* date pairs a client sends: every proper range and two that are not
ProperRanges == {d \in Dates \X Dates : d[1] < d[2]}
RequestRanges == ProperRanges \cup {<<2, 2>>, <<2, 1>>}
BookingIds == 1..MaxBookings
Absent == "absent"                     \* a field the request leaves out
NoPrice == -1                          \* total_price left out of the request
BrokerStates == BOOLEAN                \* TRUE: .delay() reaches the broker
\* the total_price the clients of Spec send with every booking
QuotedPrice == 2

\* str(instance.start_date) != str(request.data.get('start_date')),
\* views.py:485-491: the stored value prints as a datetime
\* ('2024-03-01 00:00:00+00:00'); the request carries the client's text.
\* fmt = "str" is a client that sends exactly that printed form, "iso" any
\* other spelling of the instant.
DateFormats == {"iso", "str"}
StrDiffers(stored, sent, fmt) == fmt # "str" \/ stored # sent

\* Faulty variant: the dates of the request are not compared, by the
\* serializer or by the table.
Create_NoDateCheck(actor, pid, s, e, gc, tp, brokerUp) ==
    /\ UNCHANGED <<results, worker, role, host, name, price_per_night, reviews, req>>
    /\ IF actor \notin DOMAIN role \/ CreateLookup(role, host, pid, actor) # "ok"
          \/ gc > max_guests
       THEN /\ resp' = CreateResponse(pid, s, e, gc, tp, 500)
            /\ UNCHANGED <<bookings, nextId, queue>>
       ELSE LET row == NewBooking(pid, actor, s, e, gc, tp)
            IN  /\ nextId <= MaxBookings
                /\ bookings' = Insert(bookings, nextId, row)
                /\ nextId' = nextId + 1
                /\ IF brokerUp
                   THEN /\ Len(queue) < MaxQueue
                        /\ queue' = Append(queue,
                                ConfirmationMessage(nextId, name[pid], row))
                        /\ resp' = CreateResponse(pid, s, e, gc, tp, 201)
                   ELSE /\ queue' = queue
                        /\ resp' = CreateResponse(pid, s, e, gc, tp, 500)

\* ----------------------------------------------------- BookingViewSet.create
\* views.py:392-472 (serializer.save() runs BookingSerializer.create).
Create(actor, pid, s, e, gc, tp, brokerUp) ==
    /\ UNCHANGED <<results, worker, role, host, name, price_per_night, reviews, req>>
    /\ IF actor \notin DOMAIN role
       THEN \* get_object_or_404 raises Http404 inside the try: line 467
            /\ resp' = CreateResponse(pid, s, e, gc, tp, 500)
            /\ UNCHANGED <<bookings, nextId, queue>>
       ELSE IF Validate(host, TRUE, pid, s, e, gc) # "ok"
       THEN \* line 466: status.HTTP_404_BAD_REQUEST does not exist, the
            \* AttributeError is caught at line 467
            /\ resp' = CreateResponse(pid, s, e, gc, tp, 500)
            /\ UNCHANGED <<bookings, nextId, queue>>
       ELSE IF \/ CreateLookup(role, host, pid, actor) # "ok"
               \/ ~Valid_date_range(NewBooking(pid, actor, s, e, gc, tp))
       THEN \* a ValidationError or an IntegrityError out of save()
            /\ resp' = CreateResponse(pid, s, e, gc, tp, 500)
            /\ UNCHANGED <<bookings, nextId, queue>>
       ELSE LET row == NewBooking(pid, actor, s, e, gc, tp)
            IN  /\ nextId <= MaxBookings
                /\ bookings' = Insert(bookings, nextId, row)
                /\ nextId' = nextId + 1
                /\ IF brokerUp
                   THEN /\ Len(queue) < MaxQueue
                        /\ queue' = Append(queue,
                                ConfirmationMessage(nextId, name[pid], row))
                        /\ resp' = CreateResponse(pid, s, e, gc, tp, 201)
                   ELSE \* line 457 names e, which is unbound there: the
                        \* NameError is caught at line 467
                        /\ queue' = queue
                        /\ resp' = CreateResponse(pid, s, e, gc, tp, 500)

\* ----------------------------------------------------- BookingViewSet.update
\* views.py:473-522.  A field of the request is Absent when the client
\* leaves it out (PATCH); PUT requires every field.  ModelSerializer.update
\* sets each validated field on the instance and saves it; 'status' is set
\* on the attribute get_status_display, not on the status column.
Update(actor, b, partial, hasDates, s, e, pid, uid, tp, fmt, brokerUp) ==
    /\ UNCHANGED <<results, worker, role, host, name, price_per_night, reviews, req, nextId>>
    /\ IF b \notin GetQueryset(role, host, bookings, actor)
       THEN \* get_object raises Http404 inside the try: line 517
            /\ resp' = Response("update", NoActor, b, 500)
            /\ UNCHANGED <<bookings, queue>>
       ELSE IF ~partial /\ (~hasDates \/ pid = Absent \/ uid = Absent
                              \/ tp = NoPrice)
       THEN /\ resp' = Response("update", NoActor, b, 400)
            /\ UNCHANGED <<bookings, queue>>
       ELSE LET v == Validate(host, hasDates,
                              IF pid = Absent THEN NoListing ELSE pid, s, e, 1)
                old == bookings[b]
                changed == StrDiffers(old.start_date, s, fmt)
                             \/ StrDiffers(old.end_date, e, fmt)
                row == [old EXCEPT
                          !.start_date = s, !.end_date = e,
                          !.property = IF pid = Absent THEN @ ELSE pid,
                          !.user = IF uid = Absent THEN @ ELSE uid,
                          !.total_price = IF tp = NoPrice THEN @ ELSE tp]
            IN  IF v = "invalid"
                THEN /\ resp' = Response("update", NoActor, b, 400)
                     /\ UNCHANGED <<bookings, queue>>
                ELSE IF v = "none" \/ ~Valid_date_range(row)
                THEN /\ resp' = Response("update", NoActor, b, 500)
                     /\ UNCHANGED <<bookings, queue>>
                ELSE /\ bookings' = [bookings EXCEPT ![b] = row]
                     /\ resp' = [Response("update", NoActor, b, 200) EXCEPT
                                   !.total_price = IF tp = NoPrice THEN 0
                                                   ELSE tp,
                                   !.email_queued = (changed /\ brokerUp)]
                     /\ IF changed /\ brokerUp
                        THEN /\ Len(queue) < MaxQueue
                             /\ queue' = Append(queue,
                                  ConfirmationMessage(b, name[row.property],
                                                      row))
                        ELSE queue' = queue

\* ---------------------------------------------------- BookingViewSet.destroy
\* views.py:524-558
Destroy(actor, b, reason, brokerUp) ==
    /\ UNCHANGED <<results, worker, role, host, name, price_per_night, reviews, req, nextId>>
    /\ IF b \notin GetQueryset(role, host, bookings, actor)
       THEN /\ resp' = Response("destroy", NoActor, 0, 500)
            /\ UNCHANGED <<bookings, queue>>
       ELSE /\ IF brokerUp
               THEN /\ Len(queue) < MaxQueue
                    /\ queue' = Append(queue,
                                  CancellationMessage(b,
                                      name[bookings[b].property], reason))
               ELSE queue' = queue
            /\ bookings' = Delete(bookings, b)
            /\ resp' = [Response("destroy", NoActor, b, 204) EXCEPT
                          !.email_queued = brokerUp]

\* Faulty variant: the host check of lines 630-634 left out.
Confirm_NoHostCheck(actor, b) ==
    /\ UNCHANGED <<results, worker, role, host, name, price_per_night, reviews, req, nextId, queue>>
    /\ IF b \notin GetQueryset(role, host, bookings, actor)
       THEN /\ resp' = Response("confirm", actor, b, 404)
            /\ UNCHANGED bookings
       ELSE IF bookings[b].status # "pending"
       THEN /\ resp' = Response("confirm", actor, b, 400)
            /\ UNCHANGED bookings
       ELSE /\ bookings' = [bookings EXCEPT ![b].status = "confirmed"]
            /\ resp' = Response("confirm", actor, b, 200)

\* Faulty variant: the status check of lines 636-640 left out.
Confirm_AnyStatus(actor, b) ==
    /\ UNCHANGED <<results, worker, role, host, name, price_per_night, reviews, req, nextId, queue>>
    /\ IF b \notin GetQueryset(role, host, bookings, actor)
       THEN /\ resp' = Response("confirm", actor, b, 404)
            /\ UNCHANGED bookings
       ELSE IF host[bookings[b].property] # actor
       THEN /\ resp' = Response("confirm", actor, b, 403)
            /\ UNCHANGED bookings
       ELSE /\ bookings' = [bookings EXCEPT ![b].status = "confirmed"]
            /\ resp' = Response("confirm", actor, b, 200)

\* ---------------------------------------------------- BookingViewSet.confirm
\* views.py:620-646
Confirm(actor, b) ==
    /\ UNCHANGED <<results, worker, role, host, name, price_per_night, reviews, req, nextId, queue>>
    /\ IF b \notin GetQueryset(role, host, bookings, actor)
       THEN /\ resp' = Response("confirm", actor, b, 404)
            /\ UNCHANGED bookings
       ELSE IF host[bookings[b].property] # actor
       THEN /\ resp' = Response("confirm", actor, b, 403)
            /\ UNCHANGED bookings
       ELSE IF bookings[b].status # "pending"
       THEN /\ resp' = Response("confirm", actor, b, 400)
            /\ UNCHANGED bookings
       ELSE /\ bookings' = [bookings EXCEPT ![b].status = "confirmed"]
            /\ resp' = Response("confirm", actor, b, 200)

\* Faulty variant: the status check of lines 664-668 left out.
Cancel_NoStateCheck(actor, b) ==
    /\ UNCHANGED <<results, worker, role, host, name, price_per_night, reviews, req, nextId, queue>>
    /\ IF b \notin GetQueryset(role, host, bookings, actor)
       THEN /\ resp' = Response("cancel", actor, b, 404)
            /\ UNCHANGED bookings
       ELSE IF bookings[b].user # actor /\ host[bookings[b].property] # actor
       THEN /\ resp' = Response("cancel", actor, b, 403)
            /\ UNCHANGED bookings
       ELSE /\ bookings' = [bookings EXCEPT ![b].status = "canceled"]
            /\ resp' = Response("cancel", actor, b, 200)

\* Faulty variant: the permission check of lines 658-662 left out.
Cancel_NoPermissionCheck(actor, b) ==
    /\ UNCHANGED <<results, worker, role, host, name, price_per_night, reviews, req, nextId, queue>>
    /\ IF b \notin GetQueryset(role, host, bookings, actor)
       THEN /\ resp' = Response("cancel", actor, b, 404)
            /\ UNCHANGED bookings
       ELSE IF bookings[b].status \in {"canceled", "completed"}
       THEN /\ resp' = Response("cancel", actor, b, 400)
            /\ UNCHANGED bookings
       ELSE /\ bookings' = [bookings EXCEPT ![b].status = "canceled"]
            /\ resp' = Response("cancel", actor, b, 200)

\* ----------------------------------------------------- BookingViewSet.cancel
\* views.py:648-674
Cancel(actor, b) ==
    /\ UNCHANGED <<results, worker, role, host, name, price_per_night, reviews, req, nextId, queue>>
    /\ IF b \notin GetQueryset(role, host, bookings, actor)
       THEN /\ resp' = Response("cancel", actor, b, 404)
            /\ UNCHANGED bookings
       ELSE IF bookings[b].user # actor /\ host[bookings[b].property] # actor
       THEN /\ resp' = Response("cancel", actor, b, 403)
            /\ UNCHANGED bookings
       ELSE IF bookings[b].status \in {"canceled", "completed"}
       THEN /\ resp' = Response("cancel", actor, b, 400)
            /\ UNCHANGED bookings
       ELSE /\ bookings' = [bookings EXCEPT ![b].status = "canceled"]
            /\ resp' = Response("cancel", actor, b, 200)

\* Faulty variant: the operation holds the range it found free, as a pending
\* booking of the listing.
Availability_Hold(listing, s, e) ==
    /\ UNCHANGED <<results, worker, role, host, name, price_per_night, reviews, queue, req>>
    /\ IF listing \notin DOMAIN host \/ host[listing] = NoHost
       THEN /\ resp' = Response("availability", NoActor, 0, 404)
            /\ UNCHANGED <<bookings, nextId>>
       ELSE IF s = 0 \/ e = 0
       THEN /\ resp' = Response("availability", NoActor, 0, 400)
            /\ UNCHANGED <<bookings, nextId>>
       ELSE LET conflicting_bookings ==
                    ConflictingBookings(bookings, listing, s, e)
            IN /\ resp' = [Response("availability", NoActor, 0, 200) EXCEPT
                             !.property = listing,
                             !.start_date = s, !.end_date = e,
                             !.available = (conflicting_bookings = {}),
                             !.conflicting_bookings =
                                  Cardinality(conflicting_bookings)]
               /\ IF conflicting_bookings = {} /\ nextId <= MaxBookings
                  THEN /\ bookings' = Insert(bookings, nextId,
                                        NewBooking(listing, "g1", s, e, 1, 0))
                       /\ nextId' = nextId + 1
                  ELSE UNCHANGED <<bookings, nextId>>

\* ----------------------------------------------- ListingViewSet.availability
\* views.py:258-299.  A parameter is 0 when it is missing or is not a
\* YYYY-MM-DD date.
Availability(listing, s, e) ==
    /\ UNCHANGED <<results, worker, role, host, name, price_per_night, reviews, bookings, nextId, queue, req>>
    /\ IF listing \notin DOMAIN host \/ host[listing] = NoHost
       THEN resp' = Response("availability", NoActor, 0, 404)
       ELSE IF s = 0 \/ e = 0
       THEN resp' = Response("availability", NoActor, 0, 400)
       ELSE LET conflicting_bookings ==
                    ConflictingBookings(bookings, listing, s, e)
            IN resp' = [Response("availability", NoActor, 0, 200) EXCEPT
                          !.property = listing,
                          !.start_date = s, !.end_date = e,
                          !.available = (conflicting_bookings = {}),
                          !.conflicting_bookings =
                               Cardinality(conflicting_bookings)]

\* --------------------------------------------- ListingViewSet.perform_create
\* views.py:223-238: the creator becomes the host of the new listing and a
\* guest is promoted to host.
CreateListing(actor, listing, title, price) ==
    /\ actor \in DOMAIN role
    /\ host[listing] = NoHost
    /\ host' = [host EXCEPT ![listing] = actor]
    /\ name' = [name EXCEPT ![listing] = title]
    /\ price_per_night' = [price_per_night EXCEPT ![listing] = price]
    /\ role' = [role EXCEPT ![actor] = IF @ = "guest" THEN "host" ELSE @]
    /\ resp' = Response("create_listing", NoActor, 0, 201)
    /\ UNCHANGED <<results, worker, bookings, nextId, reviews, queue, req>>

\* Faulty variant: the task looks the booking up when it runs and builds
\* its e-mail from the rows it finds.
Deliver_Reread ==
    /\ queue # <<>>
    /\ queue' = Tail(queue)
    /\ LET id == Head(queue).booking_id
       IN resp' = IF id \in DOMAIN bookings
                  THEN [Response("deliver", NoActor, id, 0) EXCEPT
                          !.listing_title = name[bookings[id].property],
                          !.start_date = bookings[id].start_date,
                          !.end_date = bookings[id].end_date,
                          !.total_price = bookings[id].total_price]
                  ELSE Response("deliver", NoActor, id, 0)
    /\ UNCHANGED <<results, worker, role, host, name, price_per_night, reviews, bookings, nextId, req>>

\* A worker takes the task at the head of the queue and runs it: the
\* task builds its e-mail from the arguments of the message alone
\* (tasks.py:50-61, tasks.py:285-299), which the log shows.
Deliver ==
    /\ queue # <<>>
    /\ queue' = Tail(queue)
    /\ resp' = [Response("deliver", NoActor, Head(queue).booking_id, 0) EXCEPT
                  !.listing_title = Head(queue).listing_title,
                  !.start_date = Head(queue).check_in_date,
                  !.end_date = Head(queue).check_out_date,
                  !.total_price = Head(queue).total_price]
    /\ UNCHANGED <<results, worker, role, host, name, price_per_night, reviews, bookings, nextId, req>>

\* The create requests of Spec: listing, range and guest count.  A range
\* that is not proper is sent for L1 and one guest.
CreateRequests ==
    {rq \in Listings \X RequestRanges \X GuestCounts :
        rq[2] \notin ProperRanges => rq[1] = "L1" /\ rq[3] = 1}
DoCreate == \E actor \in Bookers, rq \in CreateRequests,
               brokerUp \in BrokerStates :
                 Create(actor, rq[1], rq[2][1], rq[2][2], rq[3], QuotedPrice,
                        brokerUp)
\* PATCH carries the dates alone, or no field the model follows.
DoUpdate == \E actor \in Updaters, b \in BookingIds :
              \/ \E d \in RequestRanges, brokerUp \in BrokerStates :
                      Update(actor, b, TRUE, TRUE, d[1], d[2], Absent, Absent,
                             NoPrice, IF brokerUp THEN "str" ELSE "iso",
                             brokerUp)
              \/ Update(actor, b, TRUE, FALSE, 0, 0, Absent, Absent, NoPrice,
                        "iso", TRUE)
DoDestroy == \E actor \in Users, b \in BookingIds, brokerUp \in BrokerStates :
                 Destroy(actor, b, DefaultReason, brokerUp)
DoConfirm == \E actor \in Users, b \in BookingIds : Confirm(actor, b)
DoCancel == \E actor \in Users, b \in BookingIds : Cancel(actor, b)
DoAvailability == \E listing \in Listings,
                     d \in ProperRanges \cup {<<0, 1>>} :
                       Availability(listing, d[1], d[2])
DoCreateListing == \E actor \in {"g1"}, listing \in Listings :
                       CreateListing(actor, listing, "Cabin", 1)

Next ==
    \/ DoCreate
    \/ DoUpdate
    \/ DoDestroy
    \/ DoConfirm
    \/ DoCancel
    \/ DoAvailability
    \/ DoCreateListing
    \/ Deliver

Spec == Init /\ [][Next]_vars

\* ------------------------------------------- concurrent create requests
\* BookingViewSet.create as the steps a request thread takes, each one
\* database statement or broker call; no transaction spans them
\* (views.py:392-472 opens none, serializer.py:134-152 opens none).

\* views.py:398-407: profile lookup and serializer.is_valid()
CreateValidate(t, actor, pid, s, e, gc, tp) ==
    /\ req[t].pc = "idle"
    /\ UNCHANGED <<results, worker, role, host, name, price_per_night, reviews, bookings, nextId, queue>>
    /\ IF actor \notin DOMAIN role \/ Validate(host, TRUE, pid, s, e, gc) # "ok"
       THEN /\ resp' = CreateResponse(pid, s, e, gc, tp, 500)
            /\ req' = req
       ELSE /\ req' = [req EXCEPT ![t] =
                          [IdleReq EXCEPT
                              !.pc = "validated", !.actor = actor,
                              !.property_id = pid, !.start_date = s,
                              !.end_date = e, !.guests_count = gc,
                              !.total_price = tp]]
            /\ resp' = resp

\* views.py:409: serializer.save(), the INSERT of serializer.py:146-151
CreateSave(t) ==
    /\ req[t].pc = "validated"
    /\ UNCHANGED <<results, worker, role, host, name, price_per_night, reviews, queue>>
    /\ IF CreateLookup(role, host, req[t].property_id, req[t].actor) # "ok"
       THEN /\ resp' = ThreadResponse(req[t], 500)
            /\ req' = [req EXCEPT ![t] = IdleReq]
            /\ UNCHANGED <<bookings, nextId>>
       ELSE /\ nextId <= MaxBookings
            /\ bookings' = Insert(bookings, nextId,
                              NewBooking(req[t].property_id, req[t].actor,
                                         req[t].start_date, req[t].end_date,
                                         req[t].guests_count,
                                         req[t].total_price))
            /\ nextId' = nextId + 1
            /\ req' = [req EXCEPT ![t].pc = "saved", ![t].booking_id = nextId,
                                  ![t].listing_title = name[req[t].property_id]]
            /\ resp' = resp

\* views.py:435-464: send_booking_confirmation_email.delay and the response
CreateNotify(t, brokerUp) ==
    /\ req[t].pc = "saved"
    /\ UNCHANGED <<results, worker, role, host, name, price_per_night, reviews, bookings, nextId>>
    /\ req' = [req EXCEPT ![t] = IdleReq]
    /\ IF brokerUp
       THEN /\ Len(queue) < MaxQueue
            /\ queue' = Append(queue,
                    ConfirmationMessage(req[t].booking_id,
                        req[t].listing_title,
                        NewBooking(req[t].property_id, req[t].actor,
                                   req[t].start_date, req[t].end_date,
                                   req[t].guests_count, req[t].total_price)))
            /\ resp' = ThreadResponse(req[t], 201)
       ELSE /\ queue' = queue
            /\ resp' = ThreadResponse(req[t], 500)

DoCreateValidate == \E t \in Threads, actor \in Bookers, pid \in Listings,
                       d \in RequestRanges, gc \in GuestCounts :
                         CreateValidate(t, actor, pid, d[1], d[2], gc,
                                        QuotedPrice)
DoCreateSave == \E t \in Threads : CreateSave(t)
DoCreateNotify == \E t \in Threads, brokerUp \in BrokerStates :
                     CreateNotify(t, brokerUp)

NextConc ==
    \/ DoCreateValidate
    \/ DoCreateSave
    \/ DoCreateNotify
    \/ Deliver

SpecConc == Init /\ [][NextConc]_vars

\* ------------------------------------------ destroy, statement by statement
\* BookingViewSet.destroy as the steps a request thread takes.

\* views.py:529: instance = self.get_object()
DestroyGet(t, actor, b, reason) ==
    /\ req[t].pc = "idle"
    /\ UNCHANGED <<results, worker, role, host, name, price_per_night, reviews, bookings,
                   nextId, queue>>
    /\ IF b \notin GetQueryset(role, host, bookings, actor)
       THEN \* Http404 inside the try: line 552
            /\ resp' = Response("destroy", NoActor, 0, 500)
            /\ req' = req
       ELSE /\ req' = [req EXCEPT ![t] =
                          [IdleReq EXCEPT
                              !.pc = "found", !.actor = actor,
                              !.booking_id = b,
                              !.property_id = bookings[b].property,
                              !.cancellation_reason = reason]]
            /\ resp' = resp

\* Faulty variant: the exception of the enqueue is not caught at line 542,
\* the request ends at line 552 with the booking in place.
DestroyNotify_Uncaught(t, brokerUp) ==
    /\ req[t].pc = "found"
    /\ UNCHANGED <<results, worker, role, host, name, price_per_night, reviews, bookings,
                   nextId>>
    /\ IF brokerUp
       THEN /\ Len(queue) < MaxQueue
            /\ queue' = Append(queue,
                    CancellationMessage(req[t].booking_id,
                        name[req[t].property_id], req[t].cancellation_reason))
            /\ req' = [req EXCEPT ![t].pc = "notified", ![t].enqueued = TRUE]
            /\ resp' = resp
       ELSE /\ queue' = queue
            /\ req' = [req EXCEPT ![t] = IdleReq]
            /\ resp' = Response("destroy", NoActor, req[t].booking_id, 500)

\* views.py:531-543: send_booking_cancellation_email.delay inside its own
\* try; an exception is logged and the handler goes on.
DestroyNotify(t, brokerUp) ==
    /\ req[t].pc = "found"
    /\ UNCHANGED <<results, worker, role, host, name, price_per_night, reviews, bookings,
                   nextId, resp>>
    /\ req' = [req EXCEPT ![t].pc = "notified", ![t].enqueued = brokerUp]
    /\ IF brokerUp
       THEN /\ Len(queue) < MaxQueue
            /\ queue' = Append(queue,
                    CancellationMessage(req[t].booking_id,
                        name[req[t].property_id], req[t].cancellation_reason))
       ELSE queue' = queue

\* views.py:545-551: self.perform_destroy(instance) and the response
DestroyDelete(t) ==
    /\ req[t].pc = "notified"
    /\ UNCHANGED <<results, worker, role, host, name, price_per_night, reviews, nextId, queue>>
    /\ bookings' = Delete(bookings, req[t].booking_id)
    /\ req' = [req EXCEPT ![t] = IdleReq]
    /\ resp' = [Response("destroy", NoActor, req[t].booking_id, 204) EXCEPT
                  !.email_queued = req[t].enqueued]

\* The bookings the destroy requests are about: one night on L1.
DoBook == \E brokerUp \in BrokerStates :
              Create("g1", "L1", 1, 2, 1, QuotedPrice, brokerUp)
DoDestroyGet == \E t \in Threads, b \in BookingIds, reason \in Reasons :
                   DestroyGet(t, "a1", b, reason)
DoDestroyNotify == \E t \in Threads, brokerUp \in BrokerStates :
                      DestroyNotify(t, brokerUp)
DoDestroyDelete == \E t \in Threads : DestroyDelete(t)

NextDestroy ==
    \/ DoBook
    \/ DoDestroyGet
    \/ DoDestroyNotify
    \/ DoDestroyDelete
    \/ Deliver

SpecDestroy == Init /\ [][NextDestroy]_vars

\* --------------------------------- confirm and cancel, statement by statement
\* BookingViewSet.confirm and BookingViewSet.cancel as the steps a request
\* thread takes; neither opens a transaction or locks the row.  The thread
\* keeps the instance get_object() loaded, and booking.save() writes the
\* columns of that instance.

\* The instance a thread holds, as the row save() writes.
InstanceRow(r, st) ==
    [property |-> r.property_id, user |-> r.user,
     start_date |-> r.start_date, end_date |-> r.end_date,
     guests |-> r.guests_count, total_price |-> r.total_price,
     status |-> st]

\* The request state of a thread that loaded booking b.
Loaded(pc, actor, b) ==
    [IdleReq EXCEPT
        !.pc = pc, !.actor = actor, !.booking_id = b,
        !.property_id = bookings[b].property, !.user = bookings[b].user,
        !.start_date = bookings[b].start_date,
        !.end_date = bookings[b].end_date,
        !.guests_count = bookings[b].guests,
        !.total_price = bookings[b].total_price]

\* views.py:626-640: get_object() and the checks on the loaded instance
ConfirmGet(t, actor, b) ==
    /\ req[t].pc = "idle"
    /\ UNCHANGED <<results, worker, role, host, name, price_per_night, reviews, bookings,
                   nextId, queue>>
    /\ IF b \notin GetQueryset(role, host, bookings, actor)
       THEN resp' = Response("confirm", actor, b, 404) /\ req' = req
       ELSE IF host[bookings[b].property] # actor
       THEN resp' = Response("confirm", actor, b, 403) /\ req' = req
       ELSE IF bookings[b].status # "pending"
       THEN resp' = Response("confirm", actor, b, 400) /\ req' = req
       ELSE /\ req' = [req EXCEPT ![t] = Loaded("confirming", actor, b)]
            /\ resp' = resp

\* views.py:642-646: booking.status = 'confirmed'; booking.save()
ConfirmSave(t) ==
    /\ req[t].pc = "confirming"
    /\ UNCHANGED <<results, worker, role, host, name, price_per_night, reviews, nextId, queue>>
    /\ bookings' = [bookings EXCEPT ![req[t].booking_id] =
                       InstanceRow(req[t], "confirmed")]
    /\ resp' = Response("confirm", req[t].actor, req[t].booking_id, 200)
    /\ req' = [req EXCEPT ![t] = IdleReq]

\* views.py:654-668: get_object() and the checks on the loaded instance
CancelGet(t, actor, b) ==
    /\ req[t].pc = "idle"
    /\ UNCHANGED <<results, worker, role, host, name, price_per_night, reviews, bookings,
                   nextId, queue>>
    /\ IF b \notin GetQueryset(role, host, bookings, actor)
       THEN resp' = Response("cancel", actor, b, 404) /\ req' = req
       ELSE IF bookings[b].user # actor /\ host[bookings[b].property] # actor
       THEN resp' = Response("cancel", actor, b, 403) /\ req' = req
       ELSE IF bookings[b].status \in {"canceled", "completed"}
       THEN resp' = Response("cancel", actor, b, 400) /\ req' = req
       ELSE /\ req' = [req EXCEPT ![t] = Loaded("cancelling", actor, b)]
            /\ resp' = resp

\* views.py:670-674: booking.status = 'canceled'; booking.save()
CancelSave(t) ==
    /\ req[t].pc = "cancelling"
    /\ UNCHANGED <<results, worker, role, host, name, price_per_night, reviews, nextId, queue>>
    /\ bookings' = [bookings EXCEPT ![req[t].booking_id] =
                       InstanceRow(req[t], "canceled")]
    /\ resp' = Response("cancel", req[t].actor, req[t].booking_id, 200)
    /\ req' = [req EXCEPT ![t] = IdleReq]

DoConfirmGet == \E t \in Threads, actor \in {"h1", "g1"}, b \in BookingIds :
                   ConfirmGet(t, actor, b)
DoConfirmSave == \E t \in Threads : ConfirmSave(t)
DoCancelGet == \E t \in Threads, actor \in Users, b \in BookingIds :
                  CancelGet(t, actor, b)
DoCancelSave == \E t \in Threads : CancelSave(t)

NextStatus ==
    \/ DoBook
    \/ DoConfirmGet
    \/ DoConfirmSave
    \/ DoCancelGet
    \/ DoCancelSave
    \/ Deliver

SpecStatus == Init /\ [][NextStatus]_vars

\* ------------------------------------------------------ date changes
\* Bookings of L1 whose client sends the price of the stay, and PATCH
\* requests that carry both dates, or one of them or none (hasDates
\* FALSE), in either spelling; the broker is within reach.
DoBookExact == \E d \in ProperRanges, brokerUp \in BrokerStates :
                  Create("g1", "L1", d[1], d[2], 1,
                         price_per_night["L1"] * (d[2] - d[1]), brokerUp)
DoUpdateDates == \E actor \in Updaters, b \in BookingIds, fmt \in DateFormats :
                    \/ \E d \in RequestRanges :
                          Update(actor, b, TRUE, TRUE, d[1], d[2], Absent,
                                 Absent, NoPrice, fmt, TRUE)
                    \/ Update(actor, b, TRUE, FALSE, 0, 0, Absent, Absent,
                              NoPrice, fmt, TRUE)

NextUpdate ==
    \/ DoBookExact
    \/ DoUpdateDates
    \/ DoCancel
    \/ Deliver

SpecUpdate == Init /\ [][NextUpdate]_vars

\* ------------------------------------------- prices and payloads
\* Faulty variant: the bookings of the listing are priced again.
UpdateListing_Reprice(actor, listing, title, price) ==
    /\ UNCHANGED <<results, worker, role, host, nextId, reviews, queue, req>>
    /\ IF listing \notin DOMAIN host \/ host[listing] = NoHost \/ price <= 0
       THEN /\ resp' = Response("update_listing", NoActor, 0, 400)
            /\ UNCHANGED <<name, price_per_night, bookings>>
       ELSE /\ name' = [name EXCEPT ![listing] = title]
            /\ price_per_night' = [price_per_night EXCEPT ![listing] = price]
            /\ bookings' = [b \in DOMAIN bookings |->
                  IF bookings[b].property = listing
                  THEN [bookings[b] EXCEPT !.total_price =
                          price * (bookings[b].end_date
                                     - bookings[b].start_date)]
                  ELSE bookings[b]]
            /\ resp' = [Response("update_listing", NoActor, 0, 200) EXCEPT
                          !.property = listing]

\* ListingViewSet.update (the ModelViewSet default; views.py:207-221 asks
\* for an authenticated user and nothing else): writes the fields of the
\* listing; serializer.py:64-68 rejects a price that is not positive.
UpdateListing(actor, listing, title, price) ==
    /\ UNCHANGED <<results, worker, role, host, bookings, nextId, reviews, queue, req>>
    /\ IF actor \notin DOMAIN role
       THEN /\ resp' = Response("update_listing", NoActor, 0, 401)
            /\ UNCHANGED <<name, price_per_night>>
       ELSE IF listing \notin DOMAIN host \/ host[listing] = NoHost
       THEN /\ resp' = Response("update_listing", NoActor, 0, 404)
            /\ UNCHANGED <<name, price_per_night>>
       ELSE IF price <= 0
       THEN /\ resp' = Response("update_listing", NoActor, 0, 400)
            /\ UNCHANGED <<name, price_per_night>>
       ELSE /\ name' = [name EXCEPT ![listing] = title]
            /\ price_per_night' = [price_per_night EXCEPT ![listing] = price]
            /\ resp' = [Response("update_listing", NoActor, 0, 200) EXCEPT
                          !.property = listing]

\* Stays of one night and of two, and the two ranges that are not proper.
PricedRanges == {<<1, 2>>, <<1, 3>>, <<2, 2>>, <<2, 1>>}
DoCreatePriced == \E pid \in Listings, d \in PricedRanges,
                     tp \in TotalPrices, brokerUp \in BrokerStates :
                       Create("g1", pid, d[1], d[2], 1, tp, brokerUp)
\* PUT carries every field of the booking; the broker is out of reach
\* while these requests are handled.
DoUpdatePut == \E b \in BookingIds, d \in PricedRanges, tp \in TotalPrices :
                  Update("a1", b, FALSE, TRUE, d[1], d[2], "L1", "g1", tp,
                         "iso", FALSE)
DoUpdateListing == \E listing \in Listings, title \in Titles,
                      price \in Prices \cup {0} :
                        UpdateListing("h1", listing, title, price)

NextPrice ==
    \/ DoCreatePriced
    \/ DoUpdatePut
    \/ DoUpdateListing
    \/ Deliver

SpecPrice == Init /\ [][NextPrice]_vars

\* ------------------------------------------------------ listing search
\* listings/filters.py.  A filter value is a date, 0 when the request
\* leaves the parameter out (the method then returns the queryset as it
\* got it).  The queryset the filters are handed is the listings table.

\* Faulty variant: the lookups of filter_available_from used for the upper
\* bound as well.
FilterAvailableTo_AsFrom(bk, queryset, value) ==
    IF value # 0
    THEN LET conflicting_bookings ==
                 {bk[b].property : b \in {x \in DOMAIN bk :
                     /\ bk[x].status \in {"pending", "confirmed"}
                     /\ bk[x].start_date <= value
                     /\ bk[x].end_date > value}}
         IN queryset \ conflicting_bookings
    ELSE queryset

\* ListingFilter.filter_available_to, filters.py:80-97
FilterAvailableTo(bk, queryset, value) ==
    IF value # 0
    THEN LET conflicting_bookings ==
                 {bk[b].property : b \in {x \in DOMAIN bk :
                     /\ bk[x].status \in {"pending", "confirmed"}
                     /\ bk[x].start_date < value
                     /\ bk[x].end_date >= value}}
         IN queryset \ conflicting_bookings
    ELSE queryset

\* ListingFilter.filter_available_from, filters.py:60-78
FilterAvailableFrom(bk, queryset, value) ==
    IF value # 0
    THEN LET conflicting_bookings ==
                 {bk[b].property : b \in {x \in DOMAIN bk :
                     /\ bk[x].status \in {"pending", "confirmed"}
                     /\ bk[x].start_date <= value
                     /\ bk[x].end_date > value}}
         IN queryset \ conflicting_bookings
    ELSE queryset

\* GET /listings/?available_from=..&available_to=..: the filterset runs
\* the method of every parameter the request carries, one on the result of
\* the other (filters.py:48-49).
Search(available_from, available_to) ==
    /\ UNCHANGED <<results, worker, role, host, name, price_per_night, reviews, bookings, nextId, queue, req>>
    /\ LET queryset == {l \in DOMAIN host : host[l] # NoHost}
       IN resp' = [Response("search", NoActor, 0, 200) EXCEPT
                     !.available_from = available_from,
                     !.available_to = available_to,
                     !.listings =
                         FilterAvailableTo(bookings,
                             FilterAvailableFrom(bookings, queryset,
                                                 available_from),
                             available_to)]

DoSearch == \E available_from \in Dates \cup {0},
               available_to \in Dates \cup {0} :
                 Search(available_from, available_to)

NextSearch ==
    \/ DoCreate
    \/ DoConfirm
    \/ DoCancel
    \/ DoCreateListing
    \/ DoSearch
    \/ Deliver

SpecSearch == Init /\ [][NextSearch]_vars

\* ------------------------------------------------- reading bookings
\* BookingViewSet.list (the ModelViewSet default over get_queryset,
\* views.py:341-390): the bookings the caller is served.
List(actor) ==
    /\ UNCHANGED <<results, worker, role, host, name, price_per_night, reviews, bookings, nextId, queue, req>>
    /\ resp' = [Response("list", actor, 0, 200) EXCEPT
                  !.booking_ids = GetQueryset(role, host, bookings, actor)]

\* UserProfileViewSet.bookings, views.py:117-133: GET /users/{id}/bookings/.
\* get_permissions (views.py:67-81) asks for an authenticated caller and
\* nothing else; get_object finds the profile among all profiles.
UserBookings(actor, user_id) ==
    /\ UNCHANGED <<results, worker, role, host, name, price_per_night, reviews, bookings, nextId, queue, req>>
    /\ IF user_id \notin DOMAIN role
       THEN resp' = Response("user_bookings", actor, 0, 404)
       ELSE resp' = [Response("user_bookings", actor, 0, 200) EXCEPT
                       !.booking_ids = {b \in DOMAIN bookings :
                                           bookings[b].user = user_id}]

\* Bookings of L1 by a guest and by the admin (a profile is all that
\* create asks of the caller).
DoBookAs == \E actor \in {"g1", "a1"}, d \in ProperRanges,
               brokerUp \in BrokerStates :
                 Create(actor, "L1", d[1], d[2], 1, QuotedPrice, brokerUp)
DoList == \E actor \in Users \cup {"u0"} : List(actor)
DoUserBookings == \E actor \in Users, user_id \in Users \cup {"u0"} :
                     UserBookings(actor, user_id)

NextVisible ==
    \/ DoBookAs
    \/ DoCreateListing
    \/ DoConfirm
    \/ DoCancel
    \/ DoList
    \/ DoUserBookings
    \/ Deliver

SpecVisible == Init /\ [][NextVisible]_vars

\* ------------------------------------------------------------- reviews
\* Booking.can_be_reviewed, models.py:222-225:
\*   self.status == 'completed' and self.end_date < timezone.now().date()
\* end_date is a datetime (a DateTimeField) and the right-hand side a date;
\* Python refuses to order the two and raises a TypeError, so the property
\* is False for a booking that is not completed and raises for one that is.
can_be_reviewed(row, now) ==
    IF row.status = "completed" THEN "TypeError" ELSE "False"

\* serializer.py:198: Listing.object.get(...).  The manager of the model is
\* Listing.objects; the class has no attribute 'object'.
ListingObjectGet(hs, pid) == "AttributeError"

\* The row Review.objects.create inserts, serializer.py:209-214
\* (management/seed.py:264-270 inserts the same row).  A booking has at
\* most one review (the OneToOneField of models.py:250), so the model
\* numbers a review after its booking.
NewReview(bid, pid, uid, rating) ==
    [review_id |-> bid, booking |-> bid, property |-> pid, user |-> uid,
     rating |-> rating, host_response |-> "", host_response_date |-> 0]

ReviewResponse(actor, bid, pid, rating, now, code) ==
    [Response("create_review", actor, bid, code) EXCEPT
        !.property = pid, !.rating = rating, !.now = now]

\* Faulty variant: the review is stored without a look at its booking.
CreateReview_Unchecked(actor, bid, pid, uid, rating, now) ==
    /\ UNCHANGED <<results, worker, role, host, name, price_per_night, bookings, nextId, queue,
                   req>>
    /\ IF uid = Absent \/ rating \notin 1..5 \/ bid \notin DOMAIN bookings
          \/ \E r \in reviews : r.booking = bid
       THEN /\ resp' = ReviewResponse(actor, bid, pid, rating, now, 400)
            /\ reviews' = reviews
       ELSE /\ reviews' = reviews \cup {NewReview(bid, pid, uid, rating)}
            /\ resp' = ReviewResponse(actor, bid, pid, rating, now, 201)

\* ReviewViewSet.create, views.py:725-747, with ReviewSerializer.create,
\* serializer.py:188-216, which serializer.save() runs.  The request
\* carries booking_id, property_id, user_id and rating; now is the time of
\* the request.
CreateReview(actor, bid, pid, uid, rating, now) ==
    /\ UNCHANGED <<results, worker, role, host, name, price_per_night, bookings, nextId, queue,
                   req>>
    /\ IF actor \notin DOMAIN role
       THEN \* get_object_or_404 raises Http404 inside the try: line 745
            /\ resp' = ReviewResponse(actor, bid, pid, rating, now, 500)
            /\ reviews' = reviews
       ELSE IF uid = Absent \/ rating \notin 1..5
       THEN \* is_valid() fails: user_id is required (the view fills in
            \* 'user', which is no field of the request), rating is 1 to 5
            /\ resp' = ReviewResponse(actor, bid, pid, rating, now, 400)
            /\ reviews' = reviews
       ELSE IF bid \notin DOMAIN bookings
       THEN \* Booking.DoesNotExist, turned into a ValidationError that
            \* leaves save() and is caught at line 745
            /\ resp' = ReviewResponse(actor, bid, pid, rating, now, 500)
            /\ reviews' = reviews
       ELSE IF ListingObjectGet(host, pid) = "AttributeError"
       THEN \* not one of the exceptions of line 201: caught at line 745
            /\ resp' = ReviewResponse(actor, bid, pid, rating, now, 500)
            /\ reviews' = reviews
       ELSE IF uid \notin DOMAIN role
       THEN /\ resp' = ReviewResponse(actor, bid, pid, rating, now, 500)
            /\ reviews' = reviews
       ELSE IF can_be_reviewed(bookings[bid], now) # "True"
       THEN \* the ValidationError of line 206, or the TypeError
            /\ resp' = ReviewResponse(actor, bid, pid, rating, now, 500)
            /\ reviews' = reviews
       ELSE IF \E r \in reviews : r.booking = bid
       THEN \* the OneToOneField of models.py:250: IntegrityError
            /\ resp' = ReviewResponse(actor, bid, pid, rating, now, 500)
            /\ reviews' = reviews
       ELSE /\ reviews' = reviews \cup {NewReview(bid, pid, uid, rating)}
            /\ resp' = ReviewResponse(actor, bid, pid, rating, now, 201)

\* Times of a request: before and after every stay.
RequestTimes == {1, MaxDate + 1}
Ratings == {0, 5}
\* The caller sends their own user_id and the listing L1.
DoCreateReview == \E actor \in {"g1", "h1"}, bid \in BookingIds,
                     rating \in Ratings, now \in RequestTimes :
                       CreateReview(actor, bid, "L1", actor, rating, now)

NextReview ==
    \/ DoBook
    \/ DoConfirm
    \/ DoCancel
    \/ DoCreateReview
    \/ Deliver

SpecReview == Init /\ [][NextReview]_vars

\* The application keeps serving requests and the workers keep running.
SpecReviewFair == SpecReview /\ WF_vars(NextReview)

\* ------------------------------------------------------- task routing
\* The names the tasks are registered under, tasks.py:31, 201, 268, 327,
\* 360, 399, 437 (the name argument of shared_task).
RegisteredTasks ==
    {"send_booking_confirmation_email", "send_booking_reminder_email",
     "send_booking_cancellation_email", "cleanup_old_logs",
     "send_admin_notification", "process_booking_analytics",
     "test_celery_connection"}

\* app.conf.task_routes, celery.py:30-34: task name -> queue
task_routes ==
    [n \in {"listings.tasks.send_booking_confirmation_email",
            "listings.tasks.send_booking_cancellation_email",
            "listings.tasks.cleanup_old_logs"} |->
        IF n = "listings.tasks.cleanup_old_logs" THEN "maintenance"
        ELSE "emails"]

\* app.conf.beat_schedule, celery.py:38-52: the task name and the queue
\* option of every entry.
beat_schedule ==
    [e \in {"send-daily-reminders", "weekly-cleanup"} |->
        IF e = "send-daily-reminders"
        THEN [task |-> "listings.tasks.send_booking_reminder_email",
              queue |-> "emails"]
        ELSE [task |-> "listings.tasks.cleanup_old_logs",
              queue |-> "maintenance"]]

\* The queue of a message that no route and no option names: celery.py
\* sets no task_default_queue, the library's is 'celery'.
task_default_queue == "celery"
NoQueue == ""                          \* the sender names no queue

\* The queue a message is published on: the queue option of the sender,
\* else the route of the task name (an exact match of the name), else the
\* default queue.
Route(task_name, queue_option) ==
    IF queue_option # NoQueue THEN queue_option
    ELSE IF task_name \in DOMAIN task_routes THEN task_routes[task_name]
    ELSE task_default_queue

\* A message is published under the name the sender gives.
SendTask(task_name, queue_option) ==
    /\ Len(queue) < MaxSent
    /\ queue' = Append(queue, [task |-> task_name,
                               queue |-> Route(task_name, queue_option)])
    /\ UNCHANGED <<results, worker, role, host, name, price_per_night, reviews, bookings, nextId, resp, req>>

\* task.delay(...) in a request handler, views.py:437, 500, 534, 572: the
\* task is sent under its registered name and with no option.
DelayTask == \E task \in {"send_booking_confirmation_email",
                          "send_booking_cancellation_email",
                          "send_booking_reminder_email"} :
                SendTask(task, NoQueue)

\* The scheduler sends the task an entry names, with the options of the
\* entry.
BeatTick == \E e \in DOMAIN beat_schedule :
               SendTask(beat_schedule[e].task, beat_schedule[e].queue)

\* A worker receives the message at the head; a message whose name no
\* task is registered under is discarded with an error.
Receive ==
    /\ queue # <<>>
    /\ queue' = Tail(queue)
    /\ resp' = [Response("receive", NoActor, 0, 0) EXCEPT
                  !.message = Head(queue).task,
                  !.error = IF Head(queue).task \in RegisteredTasks
                            THEN "" ELSE "unregistered task"]
    /\ UNCHANGED <<results, worker, role, host, name, price_per_night, reviews, bookings, nextId, req>>

NextRoute ==
    \/ DelayTask
    \/ BeatTick
    \/ Receive

SpecRoute == Init /\ [][NextRoute]_vars

\* ------------------------------------------------ responses and edits
\* The reply management/seed.py:274 stores with a seeded review.
SeedResponse == "Thank you for your review!"
\* host_response values a client sends; the empty text stands for a
\* request without the field as well (views.py:785: not host_response).
ResponseTexts == {"", "Thanks", "Welcome back"}

\* The reviews a seeded database holds, management/seed.py:255-276: one of
\* the completed booking, by its guest and for its listing, with or
\* without a reply of the host.
SeededReviews ==
    {{NewReview(1, "L1", "g1", 2)},
     {[NewReview(1, "L1", "g1", 2) EXCEPT
          !.host_response = SeedResponse, !.host_response_date = 1]}}

InitSeeded ==
    /\ role = [p \in Profiles |->
                 IF p = "h1" THEN "host" ELSE IF p = "a1" THEN "admin"
                 ELSE "guest"]
    /\ host = [l \in Listings |-> IF l = "L1" THEN "h1" ELSE NoHost]
    /\ name = [l \in Listings |-> "Cabin"]
    /\ price_per_night = [l \in Listings |-> 1]
    /\ bookings = [b \in {1} |->
                     [NewBooking("L1", "g1", 1, 2, 1, 2) EXCEPT
                         !.status = "completed"]]
    /\ nextId = 2
    /\ reviews \in SeededReviews
    /\ queue = <<>>
    /\ resp = Response("none", NoActor, 0, 0)
    /\ req = [t \in Threads |-> IdleReq]
    /\ results = <<>>
    /\ worker = [running |-> {}, lost |-> 0]

\* ReviewViewSet.get_queryset, views.py:699-723: the reviews the actor's
\* role lets them read.
ReviewQueryset(rl, hs, rv, actor) ==
    IF actor \notin DOMAIN rl THEN {}
    ELSE IF rl[actor] = "admin" THEN rv
    ELSE IF rl[actor] = "host" THEN {r \in rv : hs[r.property] = actor}
    ELSE {r \in rv : r.user = actor}

RespondResponse(actor, rid, host_response, now, code) ==
    [Response("respond", actor, rid, code) EXCEPT
        !.host_response = host_response, !.now = now]

\* Faulty variant: a reply already stored is kept.
Respond_KeepFirst(actor, rid, host_response, now) ==
    /\ UNCHANGED <<results, worker, role, host, name, price_per_night,
                   bookings, nextId, queue, req>>
    /\ LET visible == {r \in ReviewQueryset(role, host, reviews, actor) :
                          r.review_id = rid}
       IN IF visible = {} \/ host_response = ""
          THEN /\ resp' = RespondResponse(actor, rid, host_response, now, 400)
               /\ reviews' = reviews
          ELSE LET review == CHOOSE r \in visible : TRUE
               IN /\ reviews' =
                        IF review.host_response # "" THEN reviews
                        ELSE (reviews \ {review}) \cup
                             {[review EXCEPT
                                 !.host_response = host_response,
                                 !.host_response_date = now]}
                  /\ resp' = RespondResponse(actor, rid, host_response, now,
                                             200)

\* Faulty variant: the reply is stored before the host check is made.
Respond_WriteFirst(actor, rid, host_response, now) ==
    /\ UNCHANGED <<results, worker, role, host, name, price_per_night,
                   bookings, nextId, queue, req>>
    /\ LET visible == {r \in ReviewQueryset(role, host, reviews, actor) :
                          r.review_id = rid}
       IN IF visible = {}
          THEN /\ resp' = RespondResponse(actor, rid, host_response, now, 404)
               /\ reviews' = reviews
          ELSE LET review == CHOOSE r \in visible : TRUE
               IN /\ reviews' = (reviews \ {review}) \cup
                                {[review EXCEPT
                                    !.host_response = host_response,
                                    !.host_response_date = now]}
                  /\ resp' = RespondResponse(actor, rid, host_response, now,
                               IF host[review.property] # actor THEN 403
                               ELSE IF host_response = "" THEN 400 ELSE 200)

\* ReviewViewSet.respond, views.py:768-797.  now is timezone.now() at the
\* time of the request.
Respond(actor, rid, host_response, now) ==
    /\ UNCHANGED <<results, worker, role, host, name, price_per_night,
                   bookings, nextId, queue, req>>
    /\ LET visible == {r \in ReviewQueryset(role, host, reviews, actor) :
                          r.review_id = rid}
       IN IF visible = {}
          THEN \* get_object() raises Http404
               /\ resp' = RespondResponse(actor, rid, host_response, now, 404)
               /\ reviews' = reviews
          ELSE LET review == CHOOSE r \in visible : TRUE
               IN IF host[review.property] # actor
                  THEN /\ resp' = RespondResponse(actor, rid, host_response,
                                                  now, 403)
                       /\ reviews' = reviews
                  ELSE IF host_response = ""
                  THEN /\ resp' = RespondResponse(actor, rid, host_response,
                                                  now, 400)
                       /\ reviews' = reviews
                  ELSE /\ reviews' = (reviews \ {review}) \cup
                                     {[review EXCEPT
                                         !.host_response = host_response,
                                         !.host_response_date = now]}
                       /\ resp' = RespondResponse(actor, rid, host_response,
                                                  now, 200)

\* PATCH /reviews/{id}/: ReviewViewSet is a ModelViewSet (views.py:677-697)
\* and keeps its update handlers; ReviewSerializer (serializer.py:165-181)
\* accepts rating and property_id among the fields of a request, and the
\* serializer's update writes every field it was sent to the row.  The
\* request carries a rating (hasRating) or a property_id (hasListing).
UpdateReview(actor, rid, hasRating, rating, hasListing, pid) ==
    /\ UNCHANGED <<results, worker, role, host, name, price_per_night,
                   bookings, nextId, queue, req>>
    /\ LET visible == {r \in ReviewQueryset(role, host, reviews, actor) :
                          r.review_id = rid}
           reply(code) == [Response("update_review", actor, rid, code) EXCEPT
                             !.rating = IF hasRating THEN rating ELSE 0,
                             !.property = IF hasListing THEN pid
                                          ELSE NoListing]
       IN IF visible = {}
          THEN /\ resp' = reply(404)
               /\ reviews' = reviews
          ELSE IF hasRating /\ rating \notin 1..5
          THEN \* validate_rating, serializer.py:183-186
               /\ resp' = reply(400)
               /\ reviews' = reviews
          ELSE IF hasListing /\ host[pid] = NoHost
          THEN \* no such listing: the foreign key refuses the row
               /\ resp' = reply(500)
               /\ reviews' = reviews
          ELSE LET review == CHOOSE r \in visible : TRUE
               IN /\ reviews' = (reviews \ {review}) \cup
                        {[review EXCEPT
                            !.rating = IF hasRating THEN rating ELSE @,
                            !.property = IF hasListing THEN pid ELSE @]}
                  /\ resp' = reply(200)

ReviewIds == 1..MaxBookings
\* An authenticated user that has no UserProfile row (views.py:707-710).
Strangers == {"u0"}
DoRespond == \E actor \in Users \cup Strangers, rid \in ReviewIds,
                host_response \in ResponseTexts, now \in RequestTimes :
                  Respond(actor, rid, host_response, now)
DoUpdateReview == \E actor \in Users, rid \in ReviewIds :
                    \/ \E rating \in Ratings :
                          UpdateReview(actor, rid, TRUE, rating, FALSE,
                                       NoListing)
                    \/ \E pid \in Listings :
                          UpdateReview(actor, rid, FALSE, 0, TRUE, pid)
\* create_review requests that name either listing, by the guest of the
\* booking and by another profile.
DoCreateReviewAs == \E actor \in {"g1", "h1"}, pid \in Listings,
                       now \in RequestTimes :
                         CreateReview(actor, 1, pid, actor, 5, now)

NextRespond ==
    \/ DoRespond
    \/ DoUpdateReview
    \/ DoCreateReviewAs
    \/ DoCreateListing

SpecRespond == InitSeeded /\ [][NextRespond]_vars

\* ------------------------------------------------------ task execution
\* The tasks of tasks.py that send mail.
RetryingTasks == {"send_booking_confirmation_email",
                  "send_booking_reminder_email"}
PlainTasks == {"send_booking_cancellation_email", "send_admin_notification"}
MailTasks == RetryingTasks \cup PlainTasks

\* retry_kwargs={'max_retries': ...} of the decorators, tasks.py:31 and
\* tasks.py:201.
retry_kwargs ==
    [t \in RetryingTasks |->
        IF t = "send_booking_confirmation_email" THEN 3 ELSE 2]

\* The max_retries attribute of a task: no decorator of tasks.py sets it,
\* so every task has the default of the library, 3.  self.retry(exc=exc),
\* tasks.py:198 and tasks.py:265, names no max_retries and is held to this
\* attribute; retry_kwargs is read by the autoretry wrapper alone.
max_retries == 3

\* Faulty variant: the setting left at the default of the library.
task_acks_late_Unset == FALSE
\* app.conf.task_acks_late, celery.py:60.
task_acks_late == TRUE

\* What Task.retry does with an execution whose request counts `retries`
\* earlier retries, under the limit it is given: past the limit it raises
\* the exception it was handed, otherwise it publishes the task again and
\* raises Retry.
Retry(retries, limit) == IF retries + 1 > limit THEN "raise" ELSE "Retry"

\* Faulty variant: both handlers are held to the limit of the decorator.
OnSendFailure_DecoratorLimit(task, retries) ==
    IF task \notin RetryingTasks THEN "FAILURE"
    ELSE IF Retry(retries, retry_kwargs[task]) = "Retry" THEN "RETRY"
    ELSE "FAILURE"

\* Faulty variant: the limits of the two handlers add up.
OnSendFailure_LimitsAdd(task, retries) ==
    IF task \notin RetryingTasks THEN "FAILURE"
    ELSE IF Retry(retries, max_retries + retry_kwargs[task]) = "Retry"
    THEN "RETRY"
    ELSE "FAILURE"

\* Faulty variant: every task asks for a retry.
OnSendFailure_RetryAll(task, retries) ==
    IF Retry(retries, max_retries) = "Retry" THEN "RETRY" ELSE "FAILURE"

\* The end of an execution whose send raised.  The confirmation and the
\* reminder task catch the exception and raise self.retry(exc=exc)
\* (tasks.py:193-198, tasks.py:263-265): a Retry leaves the task as it is;
\* the exception self.retry raises past its limit is one autoretry_for
\* names, and the wrapper asks for a retry under retry_kwargs.  The
\* cancellation and the admin task re-raise (tasks.py:318-320,
\* tasks.py:390-392) and are not wrapped.
OnSendFailure(task, retries) ==
    IF task \notin RetryingTasks THEN "FAILURE"
    ELSE IF Retry(retries, max_retries) = "Retry" THEN "RETRY"
    ELSE IF Retry(retries, retry_kwargs[task]) = "Retry" THEN "RETRY"
    ELSE "FAILURE"

TaskIds == 1..MaxTasks
TaskMessage(id, task, retries) == [id |-> id, task |-> task,
                                   retries |-> retries]

\* What the model keeps of a task: the state and the value the result
\* backend stores, and how often an execution of it was begun and ended.
NewTask(task) == [task |-> task, status |-> "PENDING", result |-> "",
                  error |-> "", started |-> 0, executions |-> 0]

\* task.delay(...), views.py:437, views.py:534, views.py:572: the message
\* is published and the caller is given the id of the task.
Delay(task) ==
    /\ Cardinality(DOMAIN results) < MaxTasks
    /\ LET id == Cardinality(DOMAIN results) + 1
       IN /\ queue' = Append(queue, TaskMessage(id, task, 0))
          /\ results' = [i \in DOMAIN results \cup {id} |->
                           IF i = id THEN NewTask(task) ELSE results[i]]
    /\ UNCHANGED <<role, host, name, price_per_night, bookings, nextId,
                   reviews, resp, req, worker>>

\* A worker with no task at hand takes the message at the head of the
\* queue (worker_prefetch_multiplier = 1, celery.py:61).  With
\* task_acks_late the message is not acknowledged yet.
TakeTask ==
    /\ queue # <<>>
    /\ worker.running = {}
    /\ queue' = Tail(queue)
    /\ worker' = [worker EXCEPT
                    !.running = {[msg |-> Head(queue),
                                  acked |-> ~task_acks_late,
                                  done |-> FALSE]}]
    /\ results' = [results EXCEPT ![Head(queue).id].started = @ + 1]
    /\ UNCHANGED <<role, host, name, price_per_night, bookings, nextId,
                   reviews, resp, req>>

\* The worker runs the body of the task to its end: the mail goes out
\* (sendOk) or the send raises, and the outcome is stored.
RunTask(sendOk) ==
    \E r \in worker.running :
      /\ ~r.done
      /\ LET m == r.msg
             end == IF sendOk THEN "SUCCESS"
                    ELSE OnSendFailure(m.task, m.retries)
         IN /\ results' = [results EXCEPT
                             ![m.id].status = end,
                             ![m.id].result =
                                 IF end = "SUCCESS" THEN "sent" ELSE "",
                             ![m.id].error =
                                 IF end = "SUCCESS" THEN "" ELSE "send failed",
                             ![m.id].executions = @ + 1]
            /\ queue' = IF end = "RETRY"
                        THEN Append(queue,
                                    TaskMessage(m.id, m.task, m.retries + 1))
                        ELSE queue
      /\ worker' = [worker EXCEPT
                      !.running = {[r EXCEPT !.done = TRUE]}]
      /\ UNCHANGED <<role, host, name, price_per_night, bookings, nextId,
                     reviews, resp, req>>

\* The worker acknowledges the message of the task it has run and is free
\* again.
AckTask ==
    /\ \E r \in worker.running : r.done
    /\ worker' = [worker EXCEPT !.running = {}]
    /\ UNCHANGED <<role, host, name, price_per_night, bookings, nextId,
                   reviews, queue, resp, req, results>>

\* The worker is lost with a task at hand: the broker delivers a message
\* that was not acknowledged again, an acknowledged one is gone.
LoseWorker ==
    /\ worker.lost < MaxLost
    /\ \E r \in worker.running :
          queue' = IF r.acked THEN queue ELSE Append(queue, r.msg)
    /\ worker' = [running |-> {}, lost |-> worker.lost + 1]
    /\ UNCHANGED <<role, host, name, price_per_night, bookings, nextId,
                   reviews, resp, req, results>>

\* celery.states.READY_STATES, which AsyncResult.ready() tests.
READY_STATES == {"SUCCESS", "FAILURE", "REVOKED"}

\* AsyncResult(task_id).status: a task the backend knows nothing of is
\* PENDING.
AsyncStatus(rs, task_id) ==
    IF task_id \in DOMAIN rs THEN rs[task_id].status ELSE "PENDING"

\* Faulty variant: the stored value is put into the body of every task
\* that is ready.
StatusBody_ResultAlways(rs, task_id) ==
    LET status == AsyncStatus(rs, task_id)
        ready == status \in READY_STATES
        successful == status = "SUCCESS"
    IN [ready |-> IF ready THEN "True" ELSE "False",
        successful |-> IF ~ready THEN "None"
                       ELSE IF successful THEN "True" ELSE "False",
        result |-> IF ready THEN rs[task_id].result ELSE Absent,
        error |-> IF ready /\ ~successful THEN rs[task_id].error
                  ELSE Absent,
        message |-> IF ready THEN Absent ELSE "Task is still in progress"]

\* The body of the answer, views.py:811-825; a key the body does not have
\* is Absent.
StatusBody(rs, task_id) ==
    LET status == AsyncStatus(rs, task_id)
        ready == status \in READY_STATES
        successful == status = "SUCCESS"
    IN [ready |-> IF ready THEN "True" ELSE "False",
        successful |-> IF ~ready THEN "None"
                       ELSE IF successful THEN "True" ELSE "False",
        result |-> IF ready /\ successful THEN rs[task_id].result
                   ELSE Absent,
        error |-> IF ready /\ ~successful THEN rs[task_id].error
                  ELSE Absent,
        message |-> IF ready THEN Absent ELSE "Task is still in progress"]

StatusResponse(task_id, code, body) ==
    [Response("task_status", NoActor, task_id, code) EXCEPT
        !.ready = body.ready, !.successful = body.successful,
        !.result = body.result, !.error = body.error,
        !.message = body.message]

\* check_email_task_status, views.py:801-832.  backendUp: the result
\* backend answers; when it does not, AsyncResult raises and the handler
\* answers 500 with the text of the exception alone.
CheckStatus(task_id, backendUp) ==
    /\ resp' = IF backendUp
               THEN StatusResponse(task_id, 200, StatusBody(results, task_id))
               ELSE StatusResponse(task_id, 500,
                        [ready |-> Absent, successful |-> Absent,
                         result |-> Absent,
                         error |-> "Failed to check task status",
                         message |-> Absent])
    /\ UNCHANGED <<role, host, name, price_per_night, bookings, nextId,
                   reviews, queue, req, results, worker>>

DoDelay == \E task \in MailTasks : Delay(task)
DoRunTask == \E sendOk \in BOOLEAN : RunTask(sendOk)
\* the ids of the tasks sent and one no task was given
DoCheckStatus == \E task_id \in TaskIds \cup {MaxTasks + 1},
                    backendUp \in BOOLEAN :
                      CheckStatus(task_id, backendUp)

NextTask ==
    \/ DoDelay
    \/ TakeTask
    \/ DoRunTask
    \/ AckTask
    \/ LoseWorker
    \/ DoCheckStatus

SpecTask == Init /\ [][NextTask]_vars

\* The workers alone: a worker that is running takes the next message,
\* runs the task it has taken and acknowledges it.
NextWork ==
    \/ DoDelay
    \/ TakeTask
    \/ DoRunTask
    \/ AckTask
    \/ LoseWorker

SpecWork ==
    /\ Init /\ [][NextWork]_vars
    /\ WF_vars(TakeTask) /\ WF_vars(DoRunTask) /\ WF_vars(AckTask)

\* ======================================================================
\* Properties
\* ======================================================================
ActiveStatuses == {"pending", "confirmed"}
TerminalStatuses == {"canceled", "completed"}
Overlap(s1, e1, s2, e2) == s1 < e2 /\ s2 < e1

\* C1: no two bookings of one listing that are both pending or confirmed
\* have overlapping half-open date ranges.
C1_NoActiveOverlap ==
    \A b1 \in DOMAIN bookings : \A b2 \in DOMAIN bookings :
        (/\ b1 # b2
         /\ bookings[b1].property = bookings[b2].property
         /\ bookings[b1].status \in ActiveStatuses
         /\ bookings[b2].status \in ActiveStatuses)
        => ~Overlap(bookings[b1].start_date, bookings[b1].end_date,
                    bookings[b2].start_date, bookings[b2].end_date)

\* C2: two create requests that are in flight together, for overlapping
\* ranges of one listing, never both persist their booking.
C2_CheckAndInsertAtomic ==
    \A t1 \in Threads : \A t2 \in Threads :
        (/\ t1 # t2
         /\ req[t1].pc = "saved" /\ req[t2].pc = "saved"
         /\ req[t1].property_id = req[t2].property_id)
        => ~Overlap(req[t1].start_date, req[t1].end_date,
                    req[t2].start_date, req[t2].end_date)

\* C3: a create request for a range that overlaps a confirmed booking of
\* the listing is rejected and persists nothing, while a well-formed create
\* request whose start is the end of a confirmed booking, and which
\* overlaps no pending or confirmed booking, is accepted: its booking is
\* persisted.
C3_OverlapRejectedBackToBackAccepted ==
    [][(resp'.op = "create" /\ resp'.start_date < resp'.end_date)
        => LET confirmed == {c \in DOMAIN bookings :
                               /\ bookings[c].status = "confirmed"
                               /\ bookings[c].property = resp'.property}
               active == {c \in DOMAIN bookings :
                               /\ bookings[c].status \in ActiveStatuses
                               /\ bookings[c].property = resp'.property}
               hits(c) == Overlap(bookings[c].start_date, bookings[c].end_date,
                                  resp'.start_date, resp'.end_date)
           IN /\ (\E c \in confirmed : hits(c))
                 => resp'.code \notin {200, 201} /\ bookings' = bookings
              /\ (/\ \E c \in confirmed :
                        bookings[c].end_date = resp'.start_date
                  /\ \A c \in active : ~hits(c)
                  /\ resp'.guests_count <= max_guests)
                 => \E n \in DOMAIN bookings' \ DOMAIN bookings :
                        /\ bookings'[n].property = resp'.property
                        /\ bookings'[n].start_date = resp'.start_date
                        /\ bookings'[n].end_date = resp'.end_date]_vars

\* The bookings of the listing and range of the availability response
\* that are pending or confirmed and satisfy start < end_req, end > start_req.
BlockingBookings ==
    {b \in DOMAIN bookings :
        /\ bookings[b].property = resp.property
        /\ bookings[b].status \in ActiveStatuses
        /\ bookings[b].start_date < resp.end_date
        /\ bookings[b].end_date > resp.start_date}

AvailabilityAnswered ==
    resp.op = "availability" /\ resp.code = 200
        /\ resp.start_date < resp.end_date

\* C4: the availability operation reports available exactly when no pending
\* or confirmed booking of the listing has start < end_req and end >
\* start_req, and reports the number of such bookings.
C4_AvailabilityIsHalfOpenOverlap ==
    AvailabilityAnswered =>
        /\ resp.available = (BlockingBookings = {})
        /\ resp.conflicting_bookings = Cardinality(BlockingBookings)

\* C4 witness: a pending or confirmed booking ends where the requested range
\* starts, another one is counted as the conflict of a second range.
C4_Witness ==
    /\ AvailabilityAnswered
    /\ \/ /\ resp.available
          /\ \E b \in DOMAIN bookings :
                /\ bookings[b].property = resp.property
                /\ bookings[b].status \in ActiveStatuses
                /\ bookings[b].end_date = resp.start_date
       \/ resp.conflicting_bookings = 2

\* C5: a cancelled or completed booking never blocks availability: the
\* availability of its exact range is reported whenever no other pending
\* or confirmed booking of the listing overlaps the range.
C5_TerminalBookingsDoNotBlock ==
    AvailabilityAnswered =>
        \A b \in DOMAIN bookings :
            (/\ bookings[b].status \in TerminalStatuses
             /\ bookings[b].property = resp.property
             /\ bookings[b].start_date = resp.start_date
             /\ bookings[b].end_date = resp.end_date
             /\ \A o \in DOMAIN bookings \ {b} :
                    (bookings[o].property = resp.property
                       /\ bookings[o].status \in ActiveStatuses)
                    => ~Overlap(bookings[o].start_date, bookings[o].end_date,
                                resp.start_date, resp.end_date))
            => resp.available

\* C5 witness: availability is asked, and reported, for the range of a
\* booking that a cancel request cancelled.
C5_Witness ==
    /\ AvailabilityAnswered
    /\ resp.available
    /\ \E b \in DOMAIN bookings :
          /\ bookings[b].status = "canceled"
          /\ bookings[b].property = resp.property
          /\ bookings[b].start_date = resp.start_date
          /\ bookings[b].end_date = resp.end_date

\* The request the response log shows was aimed at an existing booking.
Targeted(op) == resp'.op = op /\ resp'.target \in DOMAIN bookings

\* The booking is one the actor's role lets them read: an admin reads every
\* booking, a host those of their listings, anyone else those they made.
ActorSees(actor, b) ==
    \/ role[actor] = "admin"
    \/ role[actor] = "host" /\ host[bookings[b].property] = actor
    \/ role[actor] \notin {"admin", "host"} /\ bookings[b].user = actor

C7_NonHostConfirmIsPermissionError ==
    [][(Targeted("confirm")
          /\ host[bookings[resp'.target].property] # resp'.actor)
        => resp'.code = 403 /\ bookings' = bookings]_vars

\* C7 amended: a confirm request by an actor who is not the host of the
\* booking's listing fails, with a permission error (403) when the booking
\* is one the actor's role lets them read and with not-found (404)
\* otherwise, and leaves the booking unchanged.
C7_NonHostConfirmFails ==
    [][(Targeted("confirm")
          /\ host[bookings[resp'.target].property] # resp'.actor)
        => /\ resp'.code = (IF ActorSees(resp'.actor, resp'.target)
                            THEN 403 ELSE 404)
           /\ bookings' = bookings]_vars

\* C7 witness: a confirm request of a non-host was answered not-found for a
\* booking that exists and is still pending.
C7_Witness ==
    /\ resp.op = "confirm" /\ resp.code = 404
    /\ resp.target \in DOMAIN bookings
    /\ host[bookings[resp.target].property] # resp.actor
    /\ bookings[resp.target].status = "pending"

C9_StrangerCancelIsPermissionError ==
    [][(Targeted("cancel")
          /\ bookings[resp'.target].user # resp'.actor
          /\ host[bookings[resp'.target].property] # resp'.actor)
        => resp'.code = 403 /\ bookings' = bookings]_vars

\* C9 amended: a cancel request by an actor who is neither the booking's
\* guest nor the host of its listing fails, with a permission error (403)
\* when the booking is one the actor's role lets them read and with
\* not-found (404) otherwise, and leaves the booking unchanged.
C9_StrangerCancelFails ==
    [][(Targeted("cancel")
          /\ bookings[resp'.target].user # resp'.actor
          /\ host[bookings[resp'.target].property] # resp'.actor)
        => /\ resp'.code = (IF ActorSees(resp'.actor, resp'.target)
                            THEN 403 ELSE 404)
           /\ bookings' = bookings]_vars

\* C9 witness: a cancel request of an actor who is neither guest nor host
\* was refused with 403 and the booking is still pending or confirmed.
C9_Witness ==
    /\ resp.op = "cancel" /\ resp.code = 403
    /\ resp.target \in DOMAIN bookings
    /\ bookings[resp.target].user # resp.actor
    /\ host[bookings[resp.target].property] # resp.actor
    /\ bookings[resp.target].status \in ActiveStatuses

\* C10: a cancel request by the booking's guest or the listing's host
\* succeeds on a pending or confirmed booking and sets the status to
\* cancelled; on a cancelled or completed booking it fails with an
\* invalid-state error (400) and changes nothing.
C10_PermittedCancel ==
    [][(Targeted("cancel")
          /\ resp'.actor \in {bookings[resp'.target].user,
                              host[bookings[resp'.target].property]})
        => IF bookings[resp'.target].status \in ActiveStatuses
           THEN /\ resp'.code = 200
                /\ bookings' = [bookings EXCEPT
                                  ![resp'.target].status = "canceled"]
           ELSE resp'.code = 400 /\ bookings' = bookings]_vars

\* C11: every successful cancel request enqueues a cancellation notification
\* for the booking it cancelled, carrying a cancellation reason.
C11_CancelEnqueuesNotification ==
    [][(resp'.op = "cancel" /\ resp'.code = 200)
        => /\ Len(queue') = Len(queue) + 1
           /\ queue'[Len(queue')].task = "send_booking_cancellation_email"
           /\ queue'[Len(queue')].booking_id = resp'.target
           /\ queue'[Len(queue')].cancellation_reason \in Reasons]_vars

\* C12: in every destroy request the attempt to enqueue the cancellation
\* notification comes before the removal of the booking, and a failure of
\* the enqueue does not prevent the removal: a booking is removed only by a
\* request that has made its attempt, the attempt leaves the booking in place
\* and is followed by the removal whether or not it went through.
C12_NotifyBeforeRemovalAndRemovalRegardless ==
    [][/\ \A b \in DOMAIN bookings \ DOMAIN bookings' :
             \E t \in Threads : /\ req[t].pc = "notified"
                                /\ req[t].booking_id = b
                                /\ req'[t].pc = "idle"
       /\ \A t \in Threads :
             (req[t].pc = "found" /\ req'[t] # req[t])
             => /\ req'[t].pc = "notified"
                /\ bookings' = bookings
                /\ IF req'[t].enqueued
                   THEN queue' = Append(queue,
                            CancellationMessage(req[t].booking_id,
                                name[req[t].property_id],
                                req[t].cancellation_reason))
                   ELSE queue' = queue
       /\ \A t \in Threads :
             (req[t].pc = "notified" /\ req'[t] # req[t])
             => /\ req[t].booking_id \notin DOMAIN bookings'
                /\ resp'.op = "destroy" /\ resp'.code = 204
                /\ resp'.email_queued = req[t].enqueued]_vars

\* C12 witness: a destroy request whose enqueue failed has removed its
\* booking and answered 204.
C12_Witness ==
    /\ resp.op = "destroy" /\ resp.code = 204
    /\ ~resp.email_queued
    /\ resp.target \in BookingIds
    /\ resp.target \notin DOMAIN bookings

\* The number of whole days of the stay of a booking.
Nights(row) == row.end_date - row.start_date

\* C13: every booking persisted by a successful create request has
\* total_price equal to the price_per_night of its listing at that time
\* multiplied by the number of days from start date to end date.
C13_TotalPriceIsPriceTimesNights ==
    [][(resp'.op = "create" /\ resp'.code \in {200, 201})
        => \A n \in DOMAIN bookings' \ DOMAIN bookings :
              bookings'[n].total_price =
                  price_per_night[bookings'[n].property] * Nights(bookings'[n])
      ]_vars

\* C14: a change of the listing leaves every booking as it was, and the
\* total_price of an existing booking changes only in an update request for
\* that booking that carries the new total_price.
C14_TotalPriceNotRecomputed ==
    [][/\ resp'.op = "update_listing" => bookings' = bookings
       /\ \A b \in DOMAIN bookings \cap DOMAIN bookings' :
             bookings'[b].total_price # bookings[b].total_price
             => /\ resp'.op = "update" /\ resp'.target = b
                /\ resp'.total_price = bookings'[b].total_price]_vars

\* C14 witness: the price_per_night of a listing was changed to 2 while a
\* booking of the listing keeps the total it had at one per night.
C14_Witness ==
    /\ resp.op = "update_listing" /\ resp.code = 200
    /\ price_per_night[resp.property] = 2
    /\ \E b \in DOMAIN bookings :
          /\ bookings[b].property = resp.property
          /\ bookings[b].total_price = Nights(bookings[b])

\* C15: a create request whose guest count exceeds the max_guests of the
\* listing fails with an eligibility error, a client error (4xx), before
\* anything is persisted or enqueued: the bookings and the queue are
\* unchanged.
C15_OverCapacityIsEligibilityError ==
    [][(/\ resp'.op = "create"
        /\ resp'.start_date < resp'.end_date
        /\ host[resp'.property] # NoHost
        /\ resp'.guests_count > max_guests)
        => /\ resp'.code \in 400..499
           /\ bookings' = bookings /\ queue' = queue]_vars

\* C16: every persisted booking has its end date after its start date, and
\* a create request whose end date is equal to or before its start date is
\* rejected and persists nothing.
C16_EndAfterStart ==
    /\ [](\A b \in DOMAIN bookings :
              bookings[b].end_date > bookings[b].start_date)
    /\ [][(resp'.op = "create" /\ resp'.end_date <= resp'.start_date)
            => /\ resp'.code \notin {200, 201}
               /\ bookings' = bookings]_vars

\* C16 witness: a create request for a zero-night range was rejected while
\* a booking is stored.
C16_Witness ==
    /\ resp.op = "create" /\ resp.code = 500
    /\ resp.start_date = resp.end_date /\ resp.start_date \in Dates
    /\ host[resp.property] # NoHost
    /\ bookings # <<>>

\* C17: every successful create request enqueues a confirmation for the
\* new booking whose payload is the listing title, the dates, the price and
\* the id as they are at that moment; a later change of the listing or of the
\* booking leaves the queued payload as it is, and the worker receives the
\* payload that was enqueued.
C17_ConfirmationPayloadIsSnapshot ==
    [][/\ (resp'.op = "create" /\ resp'.code \in {200, 201})
          => \E n \in DOMAIN bookings' \ DOMAIN bookings :
                queue' = Append(queue,
                   [task |-> "send_booking_confirmation_email",
                    booking_id |-> n,
                    listing_title |-> name[bookings'[n].property],
                    check_in_date |-> bookings'[n].start_date,
                    check_out_date |-> bookings'[n].end_date,
                    total_price |-> bookings'[n].total_price,
                    cancellation_reason |-> ""])
       /\ resp'.op \in {"update_listing", "update"}
          => /\ Len(queue') >= Len(queue)
             /\ \A i \in 1..Len(queue) : queue'[i] = queue[i]
       /\ resp'.op = "deliver"
          => /\ queue # <<>>
             /\ resp'.target = Head(queue).booking_id
             /\ resp'.listing_title = Head(queue).listing_title
             /\ resp'.start_date = Head(queue).check_in_date
             /\ resp'.end_date = Head(queue).check_out_date
             /\ resp'.total_price = Head(queue).total_price]_vars

\* C17 witness: the worker received a payload whose title is no longer the
\* name of the listing and whose price is no longer the total of the
\* booking.
C17_Witness ==
    /\ resp.op = "deliver"
    /\ resp.target \in DOMAIN bookings
    /\ resp.listing_title # name[bookings[resp.target].property]
    /\ resp.total_price # bookings[resp.target].total_price

\* C18: when the enqueue of the confirmation fails during a create request,
\* the booking stays persisted and the response is a success response that
\* reports the failure.
C18_EnqueueFailureIsDegradedSuccess ==
    [][(/\ resp'.op = "create"
        /\ DOMAIN bookings' # DOMAIN bookings
        /\ ~resp'.email_queued)
        => resp'.code \in {200, 201}]_vars

\* The booking can be reviewed at the time given: it is completed and its
\* end date is in the past.
Reviewable(row, now) == row.status = "completed" /\ row.end_date < now

\* C19: a review is persisted only for a booking that, at the time of the
\* create_review request, is completed and has its end date in the past; a
\* create_review request for a booking in any other state fails and
\* persists nothing.
C19_ReviewOnlyForCompletedPastBooking ==
    [][resp'.op = "create_review"
        => /\ \A r \in reviews' \ reviews :
                 /\ r.booking \in DOMAIN bookings
                 /\ Reviewable(bookings[r.booking], resp'.now)
           /\ (resp'.target \notin DOMAIN bookings
                  \/ ~Reviewable(bookings[resp'.target], resp'.now))
              => /\ resp'.code \notin {200, 201}
                 /\ reviews' = reviews]_vars

\* C19 witness: a create_review request with a valid rating for a booking
\* that is pending, or completed with its end date still ahead, was
\* refused.
C19_Witness ==
    /\ resp.op = "create_review" /\ resp.rating = 5
    /\ resp.code \notin {200, 201}
    /\ resp.target \in DOMAIN bookings
    /\ \/ bookings[resp.target].status = "pending"
       \/ /\ bookings[resp.target].status = "completed"
          /\ bookings[resp.target].end_date >= resp.now
    /\ reviews = {}

\* C20: for a completed booking whose end date is in the past, the first
\* create_review request of its guest with rating 5 succeeds and stores the
\* review, every later one fails, and no booking ever has two reviews.
C20_ReviewOnce ==
    /\ [](\A r1 \in reviews : \A r2 \in reviews :
              r1.booking = r2.booking => r1 = r2)
    /\ [][(/\ resp'.op = "create_review" /\ resp'.rating = 5
            /\ resp'.target \in DOMAIN bookings
            /\ Reviewable(bookings[resp'.target], resp'.now)
            /\ resp'.actor = bookings[resp'.target].user)
            => IF \E r \in reviews : r.booking = resp'.target
               THEN resp'.code \notin {200, 201} /\ reviews' = reviews
               ELSE /\ resp'.code \in {200, 201}
                    /\ \E r \in reviews' \ reviews :
                          r.booking = resp'.target /\ r.rating = 5]_vars

\* The stored review a request is about.
ReviewOf(rv, rid) == CHOOSE r \in rv : r.review_id = rid

\* C21: every persisted review has the listing and the guest of its
\* booking, and a create_review request that names another listing, or is
\* made by a profile other than the booking's guest, fails and persists
\* nothing.
C21_ReviewMatchesBooking ==
    /\ [](\A r \in reviews :
             r.booking \in DOMAIN bookings
                => /\ r.property = bookings[r.booking].property
                   /\ r.user = bookings[r.booking].user)
    /\ [][(/\ resp'.op = "create_review"
           /\ resp'.target \in DOMAIN bookings
           /\ \/ resp'.property # bookings[resp'.target].property
              \/ resp'.actor # bookings[resp'.target].user)
            => /\ resp'.code \notin {200, 201}
               /\ reviews' = reviews]_vars

\* C22: a respond request by an actor who is not the host of the reviewed
\* listing fails with a permission error (403), one by the host with an
\* empty text fails with a validation error (400), and neither changes
\* the host response of the review or its date.
C22_RespondRefusedWithPermissionOrValidationError ==
    [][(/\ resp'.op = "respond"
        /\ \E r \in reviews : r.review_id = resp'.target)
         => LET review == ReviewOf(reviews, resp'.target)
            IN /\ host[review.property] # resp'.actor
                    => resp'.code = 403 /\ reviews' = reviews
               /\ (host[review.property] = resp'.actor
                     /\ resp'.host_response = "")
                    => resp'.code = 400 /\ reviews' = reviews]_vars

\* C22 as amended: the respond request of an actor who is not the host of
\* the reviewed listing fails and changes nothing, with 403 when the
\* actor's role lets them read the review and with 404 otherwise; the
\* request of the host with an empty text fails with 400 and changes
\* nothing.
C22_RespondRefused ==
    [][(/\ resp'.op = "respond"
        /\ \E r \in reviews : r.review_id = resp'.target)
         => LET review == ReviewOf(reviews, resp'.target)
            IN /\ host[review.property] # resp'.actor
                    => /\ reviews' = reviews
                       /\ resp'.code =
                            IF review \in ReviewQueryset(role, host, reviews,
                                                         resp'.actor)
                            THEN 403 ELSE 404
               /\ (host[review.property] = resp'.actor
                     /\ resp'.host_response = "")
                    => resp'.code = 400 /\ reviews' = reviews]_vars

\* C22 witness: the guest who wrote a review that carries the host's reply
\* tried to respond to it, was refused with 403, and the reply is as it
\* was.
C22_Witness ==
    /\ resp.op = "respond" /\ resp.code = 403 /\ resp.actor = "g1"
    /\ resp.host_response = "Thanks"
    /\ \E r \in reviews :
          /\ r.review_id = resp.target /\ r.user = "g1"
          /\ r.host_response = SeedResponse /\ r.host_response_date = 1

\* C23: a successful respond request stores its text and the time of the
\* request as host_response and host_response_date of the review, whatever
\* reply the review held before: the reply stored is that of the last
\* successful respond, and the same text sent twice leaves what it left
\* the first time.
C23_RespondOverwrites ==
    [][(resp'.op = "respond" /\ resp'.code = 200)
         => /\ resp'.host_response # ""
            /\ \E r \in reviews :
                  /\ r.review_id = resp'.target
                  /\ reviews' = (reviews \ {r}) \cup
                        {[r EXCEPT
                            !.host_response = resp'.host_response,
                            !.host_response_date = resp'.now]}]_vars

\* C23 witness: the host's respond at time MaxDate + 1 succeeded and the
\* review holds its text with that time.
C23_Witness ==
    /\ resp.op = "respond" /\ resp.code = 200 /\ resp.actor = "h1"
    /\ resp.now = MaxDate + 1
    /\ \E r \in reviews :
          /\ r.review_id = resp.target
          /\ r.host_response = "Welcome back"
          /\ r.host_response_date = MaxDate + 1

\* C24: no request changes the rating, the booking, the listing or the
\* author of a stored review.
C24_OnlyHostResponseChanges ==
    [][\A r \in reviews :
          \E r2 \in reviews' :
             /\ r2.review_id = r.review_id /\ r2.rating = r.rating
             /\ r2.booking = r.booking /\ r2.property = r.property
             /\ r2.user = r.user]_vars

\* The execution of message m ended with this step and its send failed.
SendFailed(m) ==
    /\ [msg |-> m, acked |-> ~task_acks_late, done |-> FALSE]
          \in worker.running
    /\ \E r \in worker'.running : r.msg = m /\ r.done
    /\ results'[m.id].status # "SUCCESS"

QueuedMessages == {queue[i] : i \in 1..Len(queue)}

\* C25: when every send of the booking-confirmation task fails, the task
\* is retried at most 3 times, 4 executions in all while no worker is
\* lost, and the execution after the third retry ends in the failure
\* state with nothing published.
C25_ConfirmationRetriesBounded ==
    /\ [](\A m \in QueuedMessages :
             m.task = "send_booking_confirmation_email" => m.retries <= 3)
    /\ [](\A id \in DOMAIN results :
             (results[id].task = "send_booking_confirmation_email"
                /\ worker.lost = 0) => results[id].executions <= 4)
    /\ [][\A m \in {r.msg : r \in worker.running} :
             (m.task = "send_booking_confirmation_email" /\ SendFailed(m))
               => IF m.retries < 3
                  THEN /\ results'[m.id].status = "RETRY"
                       /\ queue' = Append(queue,
                             TaskMessage(m.id, m.task, m.retries + 1))
                  ELSE /\ results'[m.id].status = "FAILURE"
                       /\ queue' = queue]_vars

\* C25 witness: a confirmation task whose four executions all failed is in
\* the failure state, no worker was lost and no message of it is left.
C25_Witness ==
    /\ worker.lost = 0
    /\ \E id \in DOMAIN results :
          /\ results[id].task = "send_booking_confirmation_email"
          /\ results[id].status = "FAILURE"
          /\ results[id].executions = 4
          /\ \A m \in QueuedMessages : m.id # id

\* C26: when every send of the booking-reminder task fails, the task is
\* retried at most 2 times, 3 executions in all while no worker is lost,
\* and the execution after the second retry ends in the failure state.
C26_ReminderRetriesBounded ==
    /\ [](\A m \in QueuedMessages :
             m.task = "send_booking_reminder_email" => m.retries <= 2)
    /\ [](\A id \in DOMAIN results :
             (results[id].task = "send_booking_reminder_email"
                /\ worker.lost = 0) => results[id].executions <= 3)
    /\ [][\A m \in {r.msg : r \in worker.running} :
             (m.task = "send_booking_reminder_email" /\ SendFailed(m)
                /\ m.retries >= 2)
               => /\ results'[m.id].status = "FAILURE"
                  /\ queue' = queue]_vars

\* C27: the cancellation task and the admin-notification task never ask
\* for a retry: an execution whose send fails ends the task in the failure
\* state with its error stored, and publishes nothing.
C27_PlainTasksDoNotRetry ==
    /\ [](\A m \in QueuedMessages : m.task \in PlainTasks => m.retries = 0)
    /\ [][\A m \in {r.msg : r \in worker.running} :
             (m.task \in PlainTasks /\ SendFailed(m))
               => /\ results'[m.id].status = "FAILURE"
                  /\ results'[m.id].error # ""
                  /\ queue' = queue]_vars

\* C27 witness: a cancellation task failed in its only execution and no
\* message of it is left.
C27_Witness ==
    \E id \in DOMAIN results :
       /\ results[id].task = "send_booking_cancellation_email"
       /\ results[id].status = "FAILURE" /\ results[id].error # ""
       /\ results[id].executions = 1
       /\ \A m \in QueuedMessages : m.id # id
       /\ worker.running = {}

NotReadyShape(r, rs) ==
    /\ r.ready = "False" /\ r.message = "Task is still in progress"
    /\ r.result = Absent /\ r.error = Absent
    /\ AsyncStatus(rs, r.target) \notin READY_STATES
SuccessShape(r, rs) ==
    /\ r.ready = "True" /\ r.successful = "True"
    /\ r.target \in DOMAIN rs /\ rs[r.target].status = "SUCCESS"
    /\ r.result = rs[r.target].result
    /\ r.error = Absent /\ r.message = Absent
FailureShape(r, rs) ==
    /\ r.ready = "True" /\ r.successful = "False"
    /\ r.target \in DOMAIN rs /\ rs[r.target].status = "FAILURE"
    /\ r.error = rs[r.target].error
    /\ r.result = Absent /\ r.message = Absent
\* The lookup changes nothing the tasks or the bookings are kept in.
LookupReadsOnly == UNCHANGED <<results, queue, worker, bookings, reviews>>

\* C29: the status lookup, for any task id, answers in exactly one of the
\* three shapes, and changes no task or booking state.
C29_StatusLookupHasThreeShapes ==
    [][(resp'.op = "task_status" /\ resp' # resp)
         => /\ \/ NotReadyShape(resp', results)
               \/ SuccessShape(resp', results)
               \/ FailureShape(resp', results)
            /\ LookupReadsOnly]_vars

\* C29 as amended: a lookup the result backend answers gives exactly one
\* of the three shapes; a lookup the backend does not answer gives a 500
\* whose body has the text of the error alone; either way nothing changes.
C29_StatusLookupShapes ==
    [][(resp'.op = "task_status" /\ resp' # resp)
         => /\ LookupReadsOnly
            /\ IF resp'.code = 200
               THEN \/ NotReadyShape(resp', results)
                    \/ SuccessShape(resp', results)
                    \/ FailureShape(resp', results)
               ELSE /\ resp'.code = 500
                    /\ resp'.ready = Absent /\ resp'.successful = Absent
                    /\ resp'.result = Absent /\ resp'.message = Absent
                    /\ resp'.error # Absent]_vars

\* C29 witness: the lookup of a task whose send failed for good answered
\* with the error and no result.
C29_Witness ==
    /\ resp.op = "task_status" /\ resp.code = 200
    /\ resp.ready = "True" /\ resp.successful = "False"
    /\ resp.error = "send failed" /\ resp.result = Absent
    /\ resp.target \in DOMAIN results
    /\ results[resp.target].status = "FAILURE"

\* C30: a confirmed booking whose end date has passed becomes completed:
\* once a request has been served at a time after the end date of a
\* confirmed booking, the booking comes to have status completed, unless
\* it is cancelled first.
C30_ConfirmedPastBecomesCompleted ==
    \A b \in BookingIds :
       (/\ b \in DOMAIN bookings
        /\ bookings[b].status = "confirmed"
        /\ resp.now > bookings[b].end_date)
          ~> (/\ b \in DOMAIN bookings
              /\ bookings[b].status \in {"completed", "canceled"})

\* ------------------------------------------------------- C31 .. C40
\* The input of a create request fails validation: the range is not
\* proper, the listing does not exist or the guests exceed its capacity.
FailsValidation(r) ==
    \/ r.end_date <= r.start_date
    \/ host[r.property] = NoHost
    \/ r.guests_count > max_guests

\* C31: a create request that fails input validation (end date not after
\* start date, guest count over capacity, unknown listing) is answered
\* with a client error (4xx), never with a server error (5xx), and is not
\* retried: the request leaves no task behind.
C31_InvalidCreateIsClientError ==
    [][(resp'.op = "create" /\ resp' # resp /\ FailsValidation(resp'))
        => /\ resp'.code \in 400..499
           /\ queue' = queue]_vars

\* C32: calling the availability operation twice with identical arguments
\* and no write in between yields the same result, and the operation
\* itself modifies no booking or listing.  (A call that repeats the one
\* before it, with nothing written since, is a step from a state whose
\* last response is that of the first call.)
C32_AvailabilityIsIdempotentAndReadOnly ==
    [][resp'.op = "availability"
        => /\ UNCHANGED <<bookings, nextId, host, name, price_per_night>>
           /\ (/\ resp.op = "availability"
               /\ resp.code = 200 /\ resp'.code = 200
               /\ resp'.property = resp.property
               /\ resp'.start_date = resp.start_date
               /\ resp'.end_date = resp.end_date)
              => /\ resp'.available = resp.available
                 /\ resp'.conflicting_bookings = resp.conflicting_bookings]_vars

\* C32 witness: the operation answered for a range that a pending or
\* confirmed booking of the listing occupies in part, and the bookings
\* are as the call found them.
C32_Witness ==
    /\ AvailabilityAnswered
    /\ ~resp.available /\ resp.conflicting_bookings = 1
    /\ \E b \in DOMAIN bookings :
          /\ bookings[b].property = resp.property
          /\ bookings[b].status = "pending"
          /\ bookings[b].start_date > resp.start_date
          /\ bookings[b].start_date < resp.end_date

\* Listing l has a pending or confirmed booking [s, e) with s <= d < e.
ConflictsFrom(l, d) ==
    \E b \in DOMAIN bookings :
        /\ bookings[b].property = l
        /\ bookings[b].status \in ActiveStatuses
        /\ bookings[b].start_date <= d /\ d < bookings[b].end_date

\* Listing l has a pending or confirmed booking [s, e) with s < d <= e.
ConflictsTo(l, d) ==
    \E b \in DOMAIN bookings :
        /\ bookings[b].property = l
        /\ bookings[b].status \in ActiveStatuses
        /\ bookings[b].start_date < d /\ d <= bookings[b].end_date

\* C33: the search filters available_from and available_to each exclude
\* exactly the listings that have a pending or confirmed booking [s, e)
\* conflicting with the boundary date d, s <= d < e for available_from and
\* s < d <= e for available_to, independently of each other; cancelled and
\* completed bookings exclude nothing.
C33_SearchFiltersAreHalfOpen ==
    resp.op = "search" =>
        resp.listings =
            {l \in DOMAIN host :
                /\ host[l] # NoHost
                /\ ~(resp.available_from # 0
                       /\ ConflictsFrom(l, resp.available_from))
                /\ ~(resp.available_to # 0
                       /\ ConflictsTo(l, resp.available_to))}

\* C33 witness: a search with both bounds on the day a pending or
\* confirmed booking of L1 ends leaves L1 out, by the upper bound alone.
C33_Witness ==
    /\ resp.op = "search"
    /\ resp.available_from # 0 /\ resp.available_to = resp.available_from
    /\ "L1" \notin resp.listings
    /\ ~ConflictsFrom("L1", resp.available_from)
    /\ \E b \in DOMAIN bookings : bookings[b].status = "canceled"

\* The bookings the role of the actor lets them read: all for an admin,
\* those of their own listings for a host, those they made for a guest,
\* none for a user without a profile.
VisibleTo(actor) ==
    IF actor \notin DOMAIN role THEN {}
    ELSE IF role[actor] = "admin" THEN DOMAIN bookings
    ELSE IF role[actor] = "host"
         THEN {b \in DOMAIN bookings : host[bookings[b].property] = actor}
    ELSE {b \in DOMAIN bookings : bookings[b].user = actor}

\* C34: the set of bookings an actor can read or act on is determined by
\* the role of their profile: an admin sees all bookings, a host exactly
\* the bookings of the listings they own, a guest exactly the bookings
\* they made, a user without a profile none; no guest sees a booking made
\* by another profile.
C34_VisibilityFollowsRole ==
    /\ [](resp.op \in {"list", "user_bookings"} /\ resp.code = 200
            => resp.booking_ids \subseteq VisibleTo(resp.actor))
    /\ [](resp.op = "list" => resp.booking_ids = VisibleTo(resp.actor))
    /\ [][(resp'.op \in {"confirm", "cancel"} /\ resp'.code = 200
             /\ bookings' # bookings)
            => resp'.target \in VisibleTo(resp'.actor)]_vars

\* The task a name stands for: the registered name, or the registered
\* name qualified with the module of the task.
TaskNamed(n) ==
    IF n \in {"send_booking_confirmation_email",
              "listings.tasks.send_booking_confirmation_email"}
    THEN "send_booking_confirmation_email"
    ELSE IF n \in {"send_booking_cancellation_email",
                   "listings.tasks.send_booking_cancellation_email"}
    THEN "send_booking_cancellation_email"
    ELSE IF n \in {"cleanup_old_logs", "listings.tasks.cleanup_old_logs"}
    THEN "cleanup_old_logs"
    ELSE "other"

\* C35: the confirmation and cancellation e-mail tasks are delivered on
\* the queue emails and the cleanup task on the queue maintenance: every
\* such task enqueued by a request or by the scheduler lands on its named
\* queue, with the registered name of the task as the routing key.
C35_TasksLandOnNamedQueues ==
    \A i \in 1..Len(queue) :
        TaskNamed(queue[i].task) # "other" =>
            /\ queue[i].task = TaskNamed(queue[i].task)
            /\ queue[i].queue =
                  IF TaskNamed(queue[i].task) = "cleanup_old_logs"
                  THEN "maintenance" ELSE "emails"

\* C36: the guest of a pending or confirmed booking can always cancel it,
\* whatever the role of their profile: also after the guest created a
\* listing of their own, which made them a host, their cancel request
\* reaches the booking and succeeds.
C36_GuestCanAlwaysCancel ==
    [][(/\ resp'.op = "cancel"
        /\ resp'.target \in DOMAIN bookings
        /\ bookings[resp'.target].user = resp'.actor
        /\ bookings[resp'.target].status \in ActiveStatuses)
        => /\ resp'.code = 200
           /\ bookings'[resp'.target].status = "canceled"]_vars

\* C37: under every interleaving of a confirm request and a cancel request
\* on the same pending booking, the booking never goes from cancelled back
\* to confirmed: once a cancel has written the status cancelled, a confirm
\* that read the booking earlier does not overwrite it.
C37_CancelledNeverBecomesConfirmed ==
    [][\A b \in DOMAIN bookings :
          bookings[b].status = "canceled"
              => bookings'[b].status # "confirmed"]_vars

\* C38: a create request that returns an error response (4xx or 5xx)
\* leaves the set of persisted bookings unchanged: no booking exists
\* afterwards that the caller was told had failed to be created.
C38_FailedCreatePersistsNothing ==
    [][(resp'.op = "create" /\ resp'.code \in 400..599)
        => bookings' = bookings]_vars

\* The update request the response log shows succeeded on booking b.
Updated(b) ==
    resp'.op = "update" /\ resp'.code = 200 /\ resp'.target = b

\* The start date or the end date of booking b changes in the step.
DatesChange(b) ==
    \/ bookings'[b].start_date # bookings[b].start_date
    \/ bookings'[b].end_date # bookings[b].end_date

\* Booking b of the table bk overlaps no other pending or confirmed
\* booking of its listing.
OverlapsNoOther(bk, b) ==
    \A o \in DOMAIN bk \ {b} :
        (bk[o].property = bk[b].property /\ bk[o].status \in ActiveStatuses)
        => ~Overlap(bk[o].start_date, bk[o].end_date,
                    bk[b].start_date, bk[b].end_date)

\* C39: the update operation keeps the invariants of a booking: after an
\* update request that changes the start date or the end date (a partial
\* update that supplies one of them included), the booking still has its
\* end date after its start date, still has total_price equal to the
\* nightly price times the nights, and still overlaps no other pending or
\* confirmed booking of its listing; and a confirmation notification is
\* enqueued exactly when the request changed the start or end date.
C39_UpdateKeepsInvariants ==
    [][\A b \in DOMAIN bookings :
          Updated(b) =>
            /\ DatesChange(b) =>
                  /\ bookings'[b].end_date > bookings'[b].start_date
                  /\ (bookings[b].total_price =
                        price_per_night[bookings[b].property]
                            * Nights(bookings[b]))
                     => (bookings'[b].total_price =
                           price_per_night[bookings'[b].property]
                               * Nights(bookings'[b]))
                  /\ (bookings[b].status \in ActiveStatuses
                        /\ OverlapsNoOther(bookings, b))
                     => OverlapsNoOther(bookings', b)
            /\ Len(queue') = Len(queue) + 1 <=> DatesChange(b)]_vars

\* A cancellation notification for booking b has been enqueued before, by
\* a request other than that of thread t: it is still queued, or the
\* destroy request that sent it is still under way or was the last to be
\* answered.
AlreadyNotified(b, t) ==
    \/ \E i \in 1..Len(queue) :
          /\ queue[i].task = "send_booking_cancellation_email"
          /\ queue[i].booking_id = b
    \/ \E u \in Threads \ {t} :
          /\ req[u].pc = "notified" /\ req[u].enqueued
          /\ req[u].booking_id = b
    \/ /\ resp.op = "destroy" /\ resp.code = 204
       /\ resp.target = b /\ resp.email_queued

\* C40: for each booking at most one cancellation notification is ever
\* enqueued, under every sequence and interleaving of cancel and destroy
\* requests for that booking (two concurrent destroy requests and the
\* destroy of an already cancelled booking included): no request enqueues
\* one for a booking that already had one.
C40_AtMostOneCancellationNotification ==
    [][\A t \in Threads :
          (req[t].pc = "found" /\ req'[t].pc = "notified" /\ req'[t].enqueued)
          => ~AlreadyNotified(req[t].booking_id, t)]_vars
====
